---- MODULE Spec2Model ----
(***************************************************************************)
(* State-machine model of the book API (DrRuiz/460Backend): the Express    *)
(* routers of src/src/routes/open/book.ts (bookRouter) and of the          *)
(* adminBook router (src/unnamed/part_001, lines 301-871), the shared      *)
(* middleware (checkAdmin, checkParamsIdToJwtId) and the row->DTO          *)
(* formatter, over one relational table `books`.                           *)
(*                                                                         *)
(* Conventions                                                             *)
(*  - A string is a tuple of one-character strings: <<"a","b">> is "ab".   *)
(*  - A JavaScript value is a record [k, n, s]: k is "undef" (absent or    *)
(*    null), "num", "nan" or "str".  A number is held in tenths, so that   *)
(*    one decimal digit is exact: Num(25) is 2.5 and Num(20) is 2.         *)
(*  - Integer columns of the table hold plain integers; rating_avg holds   *)
(*    tenths.                                                              *)
(*  - A handler runs its guards and one SQL statement in one step; a       *)
(*    handler that issues several statements takes one step per statement  *)
(*    and is kept in `inflight` between them.                              *)
(*  - pool.query rejects with an error that is no duplicate key while the  *)
(*    pool is "down"; only PoolFails and PoolRecovers change that.         *)
(***************************************************************************)
EXTENDS Integers, Sequences, FiniteSets, TLC

VARIABLES
    books,      \* the rows of table `books`
    nextId,     \* the next value of the generated primary key `id`
    inflight,   \* requests whose handler is between two SQL statements
    last,       \* the request that completed last, with what was sent for it
    pool        \* "up" when the connection pool reaches the store, else "down"

vars == <<books, nextId, inflight, last, pool>>

-----------------------------------------------------------------------------
(* Bounds of the model *)

\* most rows the table holds at once
MaxBooks == 2
\* most INSERTs a run performs (the id sequence is not reset)
MaxIds == 3
\* rating_count from which on no further addRating request is started
MaxCount == 2
\* most requests that are between two statements at once
MaxInflight == 1
\* largest page size the pages of a table are compared for
MaxPerPage == 3
\* the calendar year `new Date().getFullYear()` returns
CurrentYear == 2024

-----------------------------------------------------------------------------
(* JavaScript values *)

Undef == [k |-> "undef", n |-> 0, s |-> <<>>]
NaN == [k |-> "nan", n |-> 0, s |-> <<>>]
Num(n) == [k |-> "num", n |-> n, s |-> <<>>]
Str(s) == [k |-> "str", n |-> 0, s |-> s]
\* the integer i as a JavaScript number
Int10(i) == Num(i * 10)

Digits == <<"0", "1", "2", "3", "4", "5", "6", "7", "8", "9">>
IsDigit(c) == \E d \in 1..10 : Digits[d] = c
DigitVal(c) == (CHOOSE d \in 1..10 : Digits[d] = c) - 1

\* length of the longest run of digits of s that starts at position from
DigitRun(s, from) ==
    Cardinality({j \in from..Len(s) : \A i \in from..j : IsDigit(s[i])})

\* the number a string of digits stands for
RECURSIVE DigitsValue(_)
DigitsValue(ds) ==
    IF ds = <<>> THEN 0
    ELSE DigitsValue(SubSeq(ds, 1, Len(ds) - 1)) * 10 + DigitVal(ds[Len(ds)])

\* 1 when the string starts with a sign
SignLen(s) == IF Len(s) >= 1 /\ s[1] \in {"-", "+"} THEN 1 ELSE 0

\* magnitude m with the sign the string starts with
Signed(s, m) == IF Len(s) >= 1 /\ s[1] = "-" THEN 0 - m ELSE m

\* The numeric prefix of a string, in tenths: [ok, n, used], where `used` is the
\* number of characters read: a sign, il digits and, when dot, a point and fl
\* digits (the first of them is kept).
NumPrefixOf(s, sign, il, dot, fl) ==
    [ok |-> il + fl >= 1,
     n |-> Signed(s, DigitsValue(SubSeq(s, sign + 1, sign + il)) * 10
                     + (IF fl >= 1 THEN DigitVal(s[sign + il + 2]) ELSE 0)),
     used |-> sign + il + (IF dot THEN 1 + fl ELSE 0)]
NumPrefixFrac(s, sign, il, dot) ==
    NumPrefixOf(s, sign, il, dot, IF dot THEN DigitRun(s, sign + il + 2) ELSE 0)
NumPrefixInt(s, frac, sign, il) ==
    NumPrefixFrac(s, sign, il, frac /\ Len(s) > sign + il /\ s[sign + il + 1] = ".")
NumPrefixSign(s, frac, sign) == NumPrefixInt(s, frac, sign, DigitRun(s, sign + 1))
\* frac says whether a decimal part is read as well
NumPrefix(s, frac) == NumPrefixSign(s, frac, SignLen(s))

\* the number a prefix stands for: NaN when nothing was read
PrefixNum(p) == IF p.ok THEN Num(p.n) ELSE NaN
\* the number a prefix stands for when it has to be the whole of s
WholeNum(s, p) == IF p.ok /\ p.used = Len(s) THEN Num(p.n) ELSE NaN

\* truncation towards zero of a number held in tenths
Trunc(n) == IF n >= 0 THEN (n \div 10) * 10 ELSE 0 - (((0 - n) \div 10) * 10)

\* parseInt(v): the value is turned into a string and its leading integer read
parseInt(v) ==
    CASE v.k = "num" -> Num(Trunc(v.n))
      [] v.k = "str" -> PrefixNum(NumPrefix(v.s, FALSE))
      [] OTHER -> NaN

\* parseFloat(v): as parseInt, with a decimal part
parseFloat(v) ==
    CASE v.k = "num" -> v
      [] v.k = "str" -> PrefixNum(NumPrefix(v.s, TRUE))
      [] OTHER -> NaN

\* Number(v): the whole string must be a numeric literal; "" is 0
ToNumber(v) ==
    CASE v.k = "num" -> v
      [] v.k = "str" -> IF v.s = <<>> THEN Num(0) ELSE WholeNum(v.s, NumPrefix(v.s, TRUE))
      [] OTHER -> NaN

\* n >= c, n <= c for a number n and c in tenths (NaN compares false)
GeNum(n, c) == n.k = "num" /\ n.n >= c
LeNum(n, c) == n.k = "num" /\ n.n <= c
\* x >= c, x <= c for any value x: x is converted with Number first
Ge(x, c) == GeNum(ToNumber(x), c)
Le(x, c) == LeNum(ToNumber(x), c)

\* !v is false
Truthy(v) ==
    CASE v.k = "num" -> v.n # 0
      [] v.k = "str" -> v.s # <<>>
      [] OTHER -> FALSE

\* v == null
IsNullish(v) == v.k = "undef"

\* v == 0
LooseEqZero(v) == v.k # "undef" /\ ToNumber(v) = Num(0)

\* validationFunctions.isStringProvided: a string that is not empty
isStringProvided(v) == v.k = "str" /\ Len(v.s) > 0

\* validationFunctions.isNumberProvided: a number, or a non-empty string that is
\* a numeric literal as a whole
isNumberProvided(v) ==
    \/ v.k = "num"
    \/ v.k = "str" /\ v.s # <<>> /\ ToNumber(v).k = "num"

\* the text of a string value
Text(v) == v.s

\* the integer a JavaScript number that holds one stands for
AsInt(v) == v.n \div 10

-----------------------------------------------------------------------------
(* The table `books` and its statements (PostgreSQL behind pool.query) *)

\* does string s match the LIKE pattern p ("%": any run, "_": any one character)
RECURSIVE LikeMatch(_, _)
LikeMatch(s, p) ==
    IF p = <<>> THEN s = <<>>
    ELSE IF p[1] = "%"
         THEN \/ LikeMatch(s, Tail(p))
              \/ s # <<>> /\ LikeMatch(Tail(s), p)
    ELSE /\ s # <<>>
         /\ p[1] = "_" \/ p[1] = s[1]
         /\ LikeMatch(Tail(s), Tail(p))

\* `%${value}%`
Wrap(s) == <<"%">> \o s \o <<"%">>

\* the text a parameter is sent as is accepted for an integer column: an optional
\* sign and digits, nothing else
WholeInt(s, p) == p.ok /\ p.used = Len(s)
IsDbInt(v) ==
    CASE v.k = "num" -> v.n % 10 = 0
      [] v.k = "str" -> WholeInt(v.s, NumPrefix(v.s, FALSE))
      [] OTHER -> FALSE
\* the integer such a parameter stands for
DbInt(v) == AsInt(parseInt(v))

\* result of a statement: err is "none", "unique" (error.detail ends with
\* 'already exists.') or "other"; rows are the rows returned; table the table after
StmtOk(rows, table) == [err |-> "none", rows |-> rows, table |-> table]
StmtError(kind, table) == [err |-> kind, rows |-> {}, table |-> table]

\* pool.query(query, values): the statement reaches the store, which answers res,
\* only while the pool is up
Issue(table, res) == IF pool = "up" THEN res ELSE StmtError("other", table)

\* no two rows of the table share an isbn13 (the UNIQUE constraint)
UniqueIsbn(table) == \A r1, r2 \in table : r1.isbn13 = r2.isbn13 => r1 = r2

\* a statement that would leave two rows with one isbn13 fails and changes nothing
Constrained(table, res) == IF UniqueIsbn(res.table) THEN res ELSE StmtError("unique", table)

\* INSERT INTO books(...) VALUES (...) RETURNING *, with id the generated key
InsertRow(table, row) == Constrained(table, StmtOk({row}, table \cup {row}))
InsertBook(table, id, v) == InsertRow(table, [id |-> id] @@ v)

\* SELECT MAX(id) FROM books; the NULL of the empty table is 0 here, which is
\* what Math.ceil(null / perPage) makes of it
MaxId(table) ==
    IF table = {} THEN 0
    ELSE CHOOSE m \in {r.id : r \in table} : \A r \in table : r.id <= m

\* SELECT ... WHERE authors LIKE $1 / title LIKE $1 / both
WhereAuthorLike(table, pattern) == {r \in table : LikeMatch(r.authors, pattern)}
WhereTitleLike(table, pattern) == {r \in table : LikeMatch(r.title, pattern)}
WhereAuthorTitleLike(table, pa, pt) ==
    {r \in table : LikeMatch(r.authors, pa) /\ LikeMatch(r.title, pt)}

\* DELETE ... RETURNING *: the rows hit are returned and gone
DeleteRows(table, hit) == StmtOk(hit, table \ hit)

\* UPDATE ... RETURNING *: the rows hit are replaced by new, which are returned
ReplaceRows(table, hit, new) ==
    Constrained(table, StmtOk(new, (table \ hit) \cup new))

-----------------------------------------------------------------------------
(* Responses and guard chains *)

Response(status, statusMessage, message, entries) ==
    [status |-> status, statusMessage |-> statusMessage, message |-> message,
     entries |-> entries]
\* a 2xx response with its entries
Entries(status, entries) == Response(status, "", "", entries)

\* what a guard of a chain did: the responses it wrote and whether it called next()
Pass == [next |-> TRUE, sent |-> <<>>]
Reply(status, statusMessage, message) ==
    [next |-> FALSE, sent |-> <<Response(status, statusMessage, message, {})>>]

\* every response written by the first i guards
RECURSIVE SentBy(_, _)
SentBy(gs, i) == IF i = 0 THEN <<>> ELSE SentBy(gs, i - 1) \o gs[i].sent

\* the first guard that did not call next()
FirstStop(stops) == CHOOSE i \in stops : \A j \in stops : i <= j

\* Express runs the guards of a route in order; a guard that does not call next()
\* ends the chain.  ran: number of guards run; passed: the last one called next().
ChainResult(gs, ran, passed) == [ran |-> ran, passed |-> passed, sent |-> SentBy(gs, ran)]
ChainStops(gs, stops) ==
    ChainResult(gs, IF stops = {} THEN Len(gs) ELSE FirstStop(stops), stops = {})
RunChain(gs) == ChainStops(gs, {i \in 1..Len(gs) : ~gs[i].next})

ServerError == Response(500, "", "Server error - contact support", {})

\* format with the large icon in the place of the small one
formatOneIcon(resultRow) ==
    [isbn13 |-> resultRow.isbn13,
     authors |-> resultRow.authors,
     publication |-> resultRow.publication_year,
     original_title |-> resultRow.original_title,
     title |-> resultRow.title,
     ratings |-> [average |-> resultRow.rating_avg,
                  count |-> resultRow.rating_count,
                  rating_1 |-> resultRow.rating_1_star,
                  rating_2 |-> resultRow.rating_2_star,
                  rating_3 |-> resultRow.rating_3_star,
                  rating_4 |-> resultRow.rating_4_star,
                  rating_5 |-> resultRow.rating_5_star],
     icons |-> [large |-> resultRow.image_url,
                small |-> resultRow.image_url]]

\* format: the row -> DTO transform
format(resultRow) ==
    [isbn13 |-> resultRow.isbn13,
     authors |-> resultRow.authors,
     publication |-> resultRow.publication_year,
     original_title |-> resultRow.original_title,
     title |-> resultRow.title,
     ratings |-> [average |-> resultRow.rating_avg,
                  count |-> resultRow.rating_count,
                  rating_1 |-> resultRow.rating_1_star,
                  rating_2 |-> resultRow.rating_2_star,
                  rating_3 |-> resultRow.rating_3_star,
                  rating_4 |-> resultRow.rating_4_star,
                  rating_5 |-> resultRow.rating_5_star],
     icons |-> [large |-> resultRow.image_url,
                small |-> resultRow.image_small_url]]

\* rows.map(format)
FormatAll(rows) == {format(r) : r \in rows}

\* no response is waiting to be delivered
NoRequest ==
    [op |-> "none", cred |-> "none", req |-> Undef,
     chain |-> [ran |-> 0, passed |-> TRUE, sent |-> <<>>],
     sent |-> <<>>, queries |-> 0, before |-> {}, aux |-> 0]

\* the record kept of a completed request: the guards run (chain), every response
\* written for it (sent), the statements issued (queries), the table before the
\* last of them (before) and what an earlier statement of the handler read (aux)
Done(op, cred, req, chain, sent, queries, before) ==
    [op |-> op, cred |-> cred, req |-> req, chain |-> chain,
     sent |-> sent, queries |-> queries, before |-> before, aux |-> 0]

\* a request stopped by a guard: no statement is issued, the table stays
Rejected(op, cred, req, chain) ==
    /\ last' = Done(op, cred, req, chain, chain.sent, 0, books)
    /\ UNCHANGED <<books, nextId, inflight, pool>>

\* the store cannot be reached any more / can be reached again
PoolFails ==
    /\ last.op = "none" /\ pool = "up"
    /\ pool' = "down"
    /\ UNCHANGED <<books, nextId, inflight, last>>
PoolRecovers ==
    /\ last.op = "none" /\ pool = "down"
    /\ pool' = "up"
    /\ UNCHANGED <<books, nextId, inflight, last>>

\* the client receives what was sent, or gives up waiting when nothing was
Deliver ==
    /\ last.op # "none"
    /\ last' = NoRequest
    /\ UNCHANGED <<books, nextId, inflight, pool>>

\* a request between two statements: pc names the statement that is pending
Pending(op, cred, req, chain, pc) ==
    [op |-> op, cred |-> cred, req |-> req, chain |-> chain, pc |-> pc,
     queries |-> 0, aux |-> 0]

\* the sequence without its i-th element
Without(seq, i) == SubSeq(seq, 1, i - 1) \o SubSeq(seq, i + 1, Len(seq))

\* a request that passed its guards waits for its first statement
Accept(pending) ==
    /\ Len(inflight) < MaxInflight
    /\ inflight' = Append(inflight, pending)
    /\ UNCHANGED <<books, nextId, last, pool>>

\* the handler of request i goes on to its next statement, having read aux
Advance(i, pc, aux) ==
    /\ inflight' = [inflight EXCEPT ![i].pc = pc, ![i].queries = @ + 1, ![i].aux = aux]
    /\ UNCHANGED <<books, nextId, last, pool>>

\* the handler of request i writes its response, its last statement leaving table
Finish(i, response, table) ==
    /\ inflight' = Without(inflight, i)
    /\ books' = table
    /\ last' = [op |-> inflight[i].op, cred |-> inflight[i].cred,
                req |-> inflight[i].req, chain |-> inflight[i].chain,
                sent |-> inflight[i].chain.sent \o <<response>>,
                queries |-> inflight[i].queries + 1, before |-> books,
                aux |-> inflight[i].aux]
    /\ UNCHANGED <<nextId, pool>>

\* the handler of request i ends without writing a response: the promise of its
\* statement was rejected and nothing catches the rejection
Abandon(i) ==
    /\ inflight' = Without(inflight, i)
    /\ last' = [op |-> inflight[i].op, cred |-> inflight[i].cred,
                req |-> inflight[i].req, chain |-> inflight[i].chain,
                sent |-> inflight[i].chain.sent,
                queries |-> inflight[i].queries + 1, before |-> books,
                aux |-> inflight[i].aux]
    /\ UNCHANGED <<books, nextId, pool>>

\* a statement that only reads
SelectRows(table, rows) == StmtOk(rows, table)

\* the then/catch of a handler that checks that rows exist: next() when the
\* statement returned a row, else notFound; the generic 500 when it failed
ExistsThen(i, res, pc, notFound) ==
    IF res.err # "none" THEN Finish(i, ServerError, books)
    ELSE IF res.rows # {} THEN Advance(i, pc, 0)
    ELSE Finish(i, notFound, books)
-----------------------------------------------------------------------------
(* POST /book/addBook *)

\* first guard of addBook: the four required fields are there
addBookRequired(body) ==
    IF /\ Truthy(body.isbn13) \/ LooseEqZero(body.isbn13)
       /\ Truthy(body.authors)
       /\ Truthy(body.publication)
       /\ Truthy(body.title)
    THEN Pass
    ELSE Reply(400, "Missing information",
            "Missing required information, see documentation.")

isValidIsbn(body) ==
    IF Ge(parseInt(body.isbn13), 0)
    THEN Pass
    ELSE Reply(400, "Invalid ISBN",
            "Invalid ISBN, use a nonnegative number.")

isValidYear(body) ==
    IF /\ isNumberProvided(body.publication)
       /\ Le(parseInt(body.publication), CurrentYear * 10)
    THEN Pass
    ELSE Reply(400, "Invalid year",
            "Invalid year, use a number no greater than the current year.")

isValidAvg(body) ==
    IF \/ Ge(parseFloat(body.average), 0) /\ Le(parseFloat(body.average), 50)
       \/ IsNullish(body.average)
    THEN Pass
    ELSE Reply(400, "Invalid average rating",
            "Invalid average rating, use a decimal number 0-5.")

isValidCount(body) ==
    IF Ge(parseInt(body.count), 0) \/ IsNullish(body.count)
    THEN Pass
    ELSE Reply(400, "Invalid total rating count",
            "Invalid total rating count, use a nonnegative number.")

\* parseInt(v ?? 0), replaced by 0 when v === ''
StarOf(v) ==
    IF v = Str(<<>>) THEN Num(0)
    ELSE parseInt(IF IsNullish(v) THEN Num(0) ELSE v)

isValidStars(body) ==
    IF /\ Ge(StarOf(body.rating_1), 0)
       /\ Ge(StarOf(body.rating_2), 0)
       /\ Ge(StarOf(body.rating_3), 0)
       /\ Ge(StarOf(body.rating_4), 0)
       /\ Ge(StarOf(body.rating_5), 0)
    THEN Pass
    ELSE Reply(400, "Invalid star ratings",
            "Invalid star ratings, use nonnegative numbers.")

\* addBookChain with the guard of the year registered before the guard of the ISBN
addBookChainYearFirst(body) ==
    <<addBookRequired(body), isValidYear(body), isValidIsbn(body),
      isValidAvg(body), isValidCount(body), isValidStars(body)>>

\* the guards of the route, in the order they are registered
addBookChain(body) ==
    <<addBookRequired(body), isValidIsbn(body), isValidYear(body),
      isValidAvg(body), isValidCount(body), isValidStars(body)>>

\* !v ? 0 : parse(v)
OrZero(v, parsed) == IF ~Truthy(v) THEN Num(0) ELSE parsed
\* !v ? '' : v
OrEmpty(v) == IF ~Truthy(v) THEN <<>> ELSE Text(v)

\* the fourteen values of the INSERT
addBookValues(body) ==
    [isbn13 |-> parseInt(body.isbn13),
     authors |-> Text(body.authors),
     publication_year |-> parseInt(body.publication),
     original_title |-> OrEmpty(body.original_title),
     title |-> Text(body.title),
     rating_avg |-> OrZero(body.average, parseFloat(body.average)),
     rating_count |-> OrZero(body.count, parseInt(body.count)),
     rating_1_star |-> OrZero(body.rating_1, parseInt(body.rating_1)),
     rating_2_star |-> OrZero(body.rating_2, parseInt(body.rating_2)),
     rating_3_star |-> OrZero(body.rating_3, parseInt(body.rating_3)),
     rating_4_star |-> OrZero(body.rating_4, parseInt(body.rating_4)),
     rating_5_star |-> OrZero(body.rating_5, parseInt(body.rating_5)),
     image_url |-> OrEmpty(body.large),
     image_small_url |-> OrEmpty(body.small)]

\* the columns of `books` that hold integers
IntColumns ==
    {"isbn13", "publication_year", "rating_count", "rating_1_star",
     "rating_2_star", "rating_3_star", "rating_4_star", "rating_5_star"}

\* the values as the table stores them; a NaN cannot be stored
Storable(v) ==
    \A c \in IntColumns \cup {"rating_avg"} : v[c].k = "num"
Stored(v) ==
    [c \in DOMAIN v |->
        IF c \in IntColumns THEN AsInt(v[c])
        ELSE IF c = "rating_avg" THEN v[c].n
        ELSE v[c]]

\* pool.query(INSERT ..., values)
InsertValues(table, id, v) ==
    IF Storable(v) THEN InsertBook(table, id, Stored(v))
    ELSE StmtError("other", table)

\* addBookThen with a catch that does not look at error.detail
addBookThenPlain(res) ==
    [table |-> res.table,
     inserted |-> res.err = "none",
     response |->
        IF res.err = "none" THEN Entries(201, FormatAll(res.rows)) ELSE ServerError]

\* the handler's then/catch on the result of the INSERT
addBookThen(res) ==
    [table |-> res.table,
     inserted |-> res.err = "none",
     response |->
        IF res.err = "none"
        THEN Entries(201, FormatAll(res.rows))
        ELSE IF res.err = "unique"
        THEN Response(400, "Book already exists",
                "Book already exists in database.", {})
        ELSE ServerError]

\* the last handler of the route
addBookInsert(table, id, body) ==
    addBookThen(Issue(table, InsertValues(table, id, addBookValues(body))))

\* the route, given what its guards (chain) and its INSERT (ins) do
AddBookRoute(body, chain, ins) ==
    IF chain.passed
    THEN /\ ins.inserted => Cardinality(books) < MaxBooks /\ nextId <= MaxIds
         /\ books' = ins.table
         /\ nextId' = IF ins.inserted THEN nextId + 1 ELSE nextId
         /\ last' = Done("addBook", "none", body, chain,
                         chain.sent \o <<ins.response>>, 1, books)
         /\ UNCHANGED <<inflight, pool>>
    ELSE Rejected("addBook", "none", body, chain)

AddBook(bodies) ==
    /\ last.op = "none"
    /\ \E body \in bodies :
        AddBookRoute(body, RunChain(addBookChain(body)),
                     addBookInsert(books, nextId, body))

-----------------------------------------------------------------------------
(* GET /book/isbn and GET /book/getAll *)

\* the length an isbn query parameter must have
IsbnLength == 13

\* getIsbnValid without the test of the length
getIsbnValidAnyLength(query) ==
    IF isNumberProvided(query.isbn)
    THEN Pass
    ELSE Reply(400, "Missing/Bad information",
            "Missing or bad information, see documentation.")

\* GET /book/isbn: first guard
getIsbnValid(query) ==
    IF isNumberProvided(query.isbn) /\ Len(query.isbn.s) = IsbnLength
    THEN Pass
    ELSE Reply(400, "Missing/Bad information",
            "Missing or bad information, see documentation.")

getIsbnChain(query) == <<getIsbnValid(query)>>

\* SELECT ... FROM books WHERE isbn13 = $1
SelectWhereIsbn(table, param) ==
    IF ~IsDbInt(param) THEN StmtError("other", table)
    ELSE StmtOk({r \in table : r.isbn13 = DbInt(param)}, table)

\* GET /book/isbn: the handler's then/catch on the result of the SELECT
getIsbnThen(res) ==
    IF res.err # "none" THEN ServerError
    ELSE IF Cardinality(res.rows) > 0
    THEN Entries(200, FormatAll(res.rows))
    ELSE Response(404, "No books with this ISBN",
            "No books found with this ISBN.", {})

getIsbnQuery(table, query) == getIsbnThen(Issue(table, SelectWhereIsbn(table, query.isbn)))

\* a route of one statement that leaves the table as it is
ReadRoute(op, query, chain, response) ==
    IF chain.passed
    THEN /\ last' = Done(op, "none", query, chain, chain.sent \o <<response>>, 1, books)
         /\ UNCHANGED <<books, nextId, inflight, pool>>
    ELSE Rejected(op, "none", query, chain)

GetIsbnRoute(query) ==
    ReadRoute("getIsbn", query, RunChain(getIsbnChain(query)), getIsbnQuery(books, query))

GetIsbn(isbns) ==
    /\ last.op = "none"
    /\ \E isbn \in isbns : GetIsbnRoute([isbn |-> isbn])

\* GET /book/getAll: first guard
getAllValid(query) ==
    IF isNumberProvided(query.pagenum) /\ isNumberProvided(query.perpage)
    THEN Pass
    ELSE Reply(400, "Missing/Bad information",
            "Missing or bad information, see documentation.")

getAllChain(query) == <<getAllValid(query)>>

\* Math.ceil(a / b) for a >= 0 and b > 0
CeilDiv(a, b) == (a + b - 1) \div b

\* maxPages without the division by the page size
maxPagesUndivided(maxBook, intPerPage) == maxBook

\* Math.ceil(maxBook / intPerPage), intPerPage in tenths and at least 1
maxPages(maxBook, intPerPage) == CeilDiv(maxBook * 10, intPerPage)

\* the smaller of two numbers
Smaller(a, b) == IF a > b THEN b ELSE a

\* GET /book/getAll, after SELECT MAX(id): the response written at once, or the
\* bounds [minIndex, maxIndex] of the page query, in hundredths; intPageNum and
\* intPerPage are in tenths
getAllRange(maxBook, intPageNum, intPerPage) ==
    IF intPageNum < 10 \/ intPerPage < 10
    THEN [done |-> TRUE, response |->
            Response(400, "Input outside of range",
                "Both values per page and page number must be greater than 0.", {})]
    ELSE IF maxPages(maxBook, intPerPage) * 10 < intPageNum
            \/ maxPages(maxBook, intPerPage) < 1
    THEN [done |-> TRUE, response |->
            Response(400, "Page outside of range",
                <<"Page must be greater than 0 and less than ",
                  maxPages(maxBook, intPerPage), ".">>, {})]
    ELSE [done |-> FALSE,
          minIndex |-> intPerPage * (intPageNum - 10) + 100,
          maxIndex |-> Smaller(intPerPage * intPageNum, maxBook * 100)]

getAllDecide(maxBook, query) ==
    getAllRange(maxBook, parseFloat(query.pagenum).n, parseFloat(query.perpage).n)

\* SelectPage without the row whose id is the upper bound
SelectPageBelow(table, minIndex, maxIndex) ==
    IF minIndex % 100 # 0 \/ maxIndex % 100 # 0 THEN StmtError("other", table)
    ELSE StmtOk({r \in table : r.id * 100 >= minIndex /\ r.id * 100 < maxIndex}, table)

\* SELECT * FROM books WHERE id >= $1 AND id <= $2, the bounds in hundredths
SelectPage(table, minIndex, maxIndex) ==
    IF minIndex % 100 # 0 \/ maxIndex % 100 # 0 THEN StmtError("other", table)
    ELSE StmtOk({r \in table : r.id * 100 >= minIndex /\ r.id * 100 <= maxIndex}, table)

\* the handler's then/catch on the result of the page query
getAllThen(res) ==
    IF res.err = "none" THEN Entries(200, FormatAll(res.rows)) ELSE ServerError

getAllPage(table, d) == getAllThen(Issue(table, SelectPage(table, d.minIndex, d.maxIndex)))

GetAllRoute(query, chain) ==
    IF chain.passed
    THEN Accept(Pending("getAll", "none", query, chain, "max"))
    ELSE Rejected("getAll", "none", query, chain)

\* the request arrives: the guard runs and SELECT MAX(id) is issued
GetAllStart(pagenums, perpages) ==
    /\ last.op = "none"
    /\ \E pagenum \in pagenums, perpage \in perpages :
        GetAllRoute([pagenum |-> pagenum, perpage |-> perpage],
                    RunChain(getAllChain([pagenum |-> pagenum, perpage |-> perpage])))

GetAllMaxThen(i, maxBook, d) ==
    IF d.done THEN Finish(i, d.response, books) ELSE Advance(i, "page", maxBook)

GetAllMaxOf(i, maxBook) == GetAllMaxThen(i, maxBook, getAllDecide(maxBook, inflight[i].req))

\* SELECT MAX(id) answers; the promise has a then and no catch
GetAllMax ==
    /\ last.op = "none"
    /\ \E i \in 1..Len(inflight) :
        /\ inflight[i].op = "getAll" /\ inflight[i].pc = "max"
        /\ IF pool = "up" THEN GetAllMaxOf(i, MaxId(books)) ELSE Abandon(i)

\* the page query answers
GetAllPage ==
    /\ last.op = "none"
    /\ \E i \in 1..Len(inflight) :
        /\ inflight[i].op = "getAll" /\ inflight[i].pc = "page"
        /\ Finish(i, getAllPage(books, getAllDecide(inflight[i].aux, inflight[i].req)), books)


-----------------------------------------------------------------------------
(* GET /book/author, /book/title, /book/authortitle and /book/ratings *)

\* the guard of a route whose query parameters must be non-empty strings
MissingData == Reply(400, "Missing information", "Missing data, refer to documentation.")
getAuthorProvided(query) == IF isStringProvided(query.author) THEN Pass ELSE MissingData
getTitleProvided(query) == IF isStringProvided(query.title) THEN Pass ELSE MissingData
getAuthorTitleProvided(query) ==
    IF isStringProvided(query.author) /\ isStringProvided(query.title)
    THEN Pass ELSE MissingData

\* SELECT ... FROM books WHERE authors LIKE $1 / title LIKE $1 / both, the
\* parameters being `%${author}%` and `%${title}%`
SelectAuthor(table, query) ==
    SelectRows(table, WhereAuthorLike(table, Wrap(Text(query.author))))
SelectTitle(table, query) ==
    SelectRows(table, WhereTitleLike(table, Wrap(Text(query.title))))
SelectAuthorTitle(table, query) ==
    SelectRows(table, WhereAuthorTitleLike(table, Wrap(Text(query.author)),
                                          Wrap(Text(query.title))))

\* then/catch of a last handler that sends the rows it found, or notFound
RowsOr(res, notFound) ==
    IF res.err # "none" THEN ServerError
    ELSE IF Cardinality(res.rows) > 0 THEN Entries(200, FormatAll(res.rows))
    ELSE notFound

\* a route whose handlers issue several statements: it waits for the first (pc)
StagedRoute(op, query, chain, pc) ==
    IF chain.passed
    THEN Accept(Pending(op, "none", query, chain, pc))
    ELSE Rejected(op, "none", query, chain)

\* GET /book/author: the request arrives
GetAuthorStart(authors) ==
    /\ last.op = "none"
    /\ \E author \in authors :
        StagedRoute("getAuthor", [author |-> author],
                    RunChain(<<getAuthorProvided([author |-> author])>>), "exists")

getAuthorMissing ==
    Response(404, "No books found",
        "No books with this author were found in the database.", {})

\* GET /book/author: the statement that checks that the author exists
GetAuthorExists ==
    /\ last.op = "none"
    /\ \E i \in 1..Len(inflight) :
        /\ inflight[i].op = "getAuthor" /\ inflight[i].pc = "exists"
        /\ ExistsThen(i, Issue(books, SelectAuthor(books, inflight[i].req)),
                      "select", getAuthorMissing)

\* GET /book/author: the last handler's then/catch sends whatever rows it gets
getAuthorThen(res) ==
    IF res.err = "none" THEN Entries(200, FormatAll(res.rows)) ELSE ServerError

\* GET /book/author: the statement that selects the books
GetAuthorSelect ==
    /\ last.op = "none"
    /\ \E i \in 1..Len(inflight) :
        /\ inflight[i].op = "getAuthor" /\ inflight[i].pc = "select"
        /\ Finish(i, getAuthorThen(Issue(books, SelectAuthor(books, inflight[i].req))),
                  books)

getTitleMissing ==
    Response(404, "Book title does not exist", "Book title not found in database.", {})

\* GET /book/title
GetTitle(titles) ==
    /\ last.op = "none"
    /\ \E title \in titles :
        ReadRoute("getTitle", [title |-> title],
                  RunChain(<<getTitleProvided([title |-> title])>>),
                  RowsOr(Issue(books, SelectTitle(books, [title |-> title])),
                         getTitleMissing))

\* getAuthorTitleNoPair with the status of a book that is not found
getAuthorTitleNoPair404 ==
    Response(404, "Book and Author do not match",
        "Book not written by specified author.", {})

\* GET /book/authortitle: the responses of its three checks
getAuthorTitleNoTitle ==
    Response(404, "Book does not exist", "Book title does not exist in database.", {})
getAuthorTitleNoAuthor ==
    Response(404, "Author does not exist", "Author does not exist in database.", {})
getAuthorTitleNoPair ==
    Response(400, "Book and Author do not match",
        "Book not written by specified author.", {})

\* GET /book/authortitle: the request arrives
GetAuthorTitleStart(authors, titles) ==
    /\ last.op = "none"
    /\ \E author \in authors, title \in titles :
        StagedRoute("getAuthorTitle", [author |-> author, title |-> title],
                    RunChain(<<getAuthorTitleProvided([author |-> author,
                                                       title |-> title])>>),
                    "author")

\* GET /book/authortitle: the statement that checks that the author exists
GetAuthorTitleAuthor ==
    /\ last.op = "none"
    /\ \E i \in 1..Len(inflight) :
        /\ inflight[i].op = "getAuthorTitle" /\ inflight[i].pc = "author"
        /\ ExistsThen(i, Issue(books, SelectAuthor(books, inflight[i].req)),
                      "title", getAuthorTitleNoAuthor)

\* GET /book/authortitle: the statement that checks that the title exists
GetAuthorTitleTitle ==
    /\ last.op = "none"
    /\ \E i \in 1..Len(inflight) :
        /\ inflight[i].op = "getAuthorTitle" /\ inflight[i].pc = "title"
        /\ ExistsThen(i, Issue(books, SelectTitle(books, inflight[i].req)),
                      "pair", getAuthorTitleNoTitle)

\* GET /book/authortitle: the statement that selects the books of the pair
GetAuthorTitlePair ==
    /\ last.op = "none"
    /\ \E i \in 1..Len(inflight) :
        /\ inflight[i].op = "getAuthorTitle" /\ inflight[i].pc = "pair"
        /\ Finish(i, RowsOr(Issue(books, SelectAuthorTitle(books, inflight[i].req)),
                            getAuthorTitleNoPair),
                  books)

\* GET /book/ratings: the guard of the parameters, then the guard of the range
getRatingsProvided(query) ==
    IF isNumberProvided(query.min) /\ isNumberProvided(query.max)
    THEN Pass
    ELSE Reply(400, "Missing/Bad information",
            "Missing or bad information, see documentation.")

\* a < b for two numbers (NaN compares false)
LtNum(a, b) == a.k = "num" /\ b.k = "num" /\ a.n < b.n

getRatingsRange(query) ==
    IF LtNum(parseFloat(query.min), Num(0)) \/ LtNum(Num(50), parseFloat(query.max))
    THEN Reply(400, "Out of range", "Ratings should be between 0.0 and 5.0")
    ELSE IF LtNum(parseFloat(query.max), parseFloat(query.min))
    THEN Reply(400, "Min greater than max",
            "Minimum rating should be less than maximum rating.")
    ELSE Pass

getRatingsChain(query) == <<getRatingsProvided(query), getRatingsRange(query)>>

\* SelectRatings with the bounds left out of the range
SelectRatingsExclusive(table, lo, hi) ==
    IF lo.k # "num" \/ hi.k # "num" THEN StmtError("other", table)
    ELSE SelectRows(table, {r \in table : lo.n < r.rating_avg /\ r.rating_avg < hi.n})

\* SELECT ... WHERE rating_avg >= $1 AND rating_avg <= $2, the parameters being
\* the query strings as they came: the store reads each as a number
SelectRatings(table, lo, hi) ==
    IF lo.k # "num" \/ hi.k # "num" THEN StmtError("other", table)
    ELSE SelectRows(table, {r \in table : lo.n <= r.rating_avg /\ r.rating_avg <= hi.n})

getRatingsMissing ==
    Response(404, "No books in range", "No books found in this rating range.", {})

getRatingsQuery(table, query) ==
    RowsOr(Issue(table, SelectRatings(table, ToNumber(query.min), ToNumber(query.max))),
           getRatingsMissing)

\* GET /book/ratings
GetRatings(mins, maxs) ==
    /\ last.op = "none"
    /\ \E min \in mins, max \in maxs :
        ReadRoute("getRatings", [min |-> min, max |-> max],
                  RunChain(getRatingsChain([min |-> min, max |-> max])),
                  getRatingsQuery(books, [min |-> min, max |-> max]))

\* GET /book/singlerating: the guard of the parameter, then the guard of the range
getSingleRatingProvided(query) ==
    IF isNumberProvided(query.rating)
    THEN Pass
    ELSE Reply(400, "Missing/Bad information",
            "Missing or bad information, see documentation.")

getSingleRatingRange(query) ==
    IF LtNum(Num(0), parseFloat(query.rating)) /\ LeNum(parseFloat(query.rating), 50)
    THEN Pass
    ELSE Reply(400, "Rating out of range", "Rating should be between 0.0 and 5.0.")

\* SELECT ... WHERE rating_avg = $1, the parameter being the query string as it
\* came: the store reads it as a number
SelectRatingAvg(table, avg) ==
    IF avg.k # "num" THEN StmtError("other", table)
    ELSE SelectRows(table, {r \in table : r.rating_avg = avg.n})

getSingleRatingMissing ==
    Response(404, "No books found", "No books with this rating were found.", {})

\* GET /book/singlerating
GetSingleRating(ratings) ==
    /\ last.op = "none"
    /\ \E rating \in ratings :
        ReadRoute("getSingleRating", [rating |-> rating],
                  RunChain(<<getSingleRatingProvided([rating |-> rating]),
                             getSingleRatingRange([rating |-> rating])>>),
                  RowsOr(Issue(books, SelectRatingAvg(books, ToNumber(rating))),
                         getSingleRatingMissing))

\* GET /book/year: the guard of the parameter, then the guard of the range
getYearProvided(query) ==
    IF isNumberProvided(query.year)
    THEN Pass
    ELSE Reply(400, "Missing/Bad information",
            "Missing or bad information, see documentation.")

getYearRange(query) ==
    IF LtNum(Int10(CurrentYear), parseInt(query.year))
    THEN Reply(400, "Year is in the future", "Cannot input a future year.")
    ELSE Pass

\* SELECT ... WHERE publication_year = $1, the parameter being the query string
\* as it came
SelectYear(table, param) ==
    IF ~IsDbInt(param) THEN StmtError("other", table)
    ELSE SelectRows(table, {r \in table : r.publication_year = DbInt(param)})

getYearMissing ==
    Response(404, "No books in this year", "No books found in this year.", {})

\* GET /book/year
GetYear(years) ==
    /\ last.op = "none"
    /\ \E year \in years :
        ReadRoute("getYear", [year |-> year],
                  RunChain(<<getYearProvided([year |-> year]), getYearRange([year |-> year])>>),
                  RowsOr(Issue(books, SelectYear(books, year)), getYearMissing))
-----------------------------------------------------------------------------
(* The /adminBook router and the middleware mounted before it *)

\* the credentials a request may carry: no token, a token whose role is not the
\* admin role, a token whose role is the admin role (claims.role === 1)
Creds == {"none", "user", "admin"}

\* checkAdmin: the role claim of the token is the admin role.  No route of the
\* router registers it.
checkAdmin(cred) ==
    IF cred = "admin"
    THEN Pass
    ELSE Reply(403, "Invalid Privilege",
            "User does not have privilege to access this route.")

\* closedRoutes.use('/adminBook', adminBookRouter): the guards that run before the
\* guards of an /adminBook route; none is mounted
closedRoutes(cred) == <<>>

\* a route of /adminBook of one statement, given what its guards (chain) and its
\* last handler (out: the table after, the statements issued, the response) do
AdminRoute(op, cred, req, chain, out) ==
    IF chain.passed
    THEN /\ books' = out.table
         /\ last' = Done(op, cred, req, chain, chain.sent \o <<out.response>>,
                         out.queries, books)
         /\ UNCHANGED <<nextId, inflight, pool>>
    ELSE Rejected(op, cred, req, chain)

\* DELETE ... WHERE authors LIKE $1 RETURNING *
DeleteWhereAuthorLike(table, pattern) == DeleteRows(table, WhereAuthorLike(table, pattern))

\* DELETE /adminBook/author: first guard
deleteAuthorProvided(query) ==
    IF isStringProvided(query.author)
    THEN Pass
    ELSE Reply(400, "Missing information",
            "Missing data, refer to documentation.")

deleteAuthorChain(cred, query) == closedRoutes(cred) \o <<deleteAuthorProvided(query)>>

\* DELETE /adminBook/author: the handler's then/catch on the result of the DELETE
deleteAuthorThen(res) ==
    [table |-> res.table, queries |-> 1,
     response |->
        IF res.err # "none" THEN ServerError
        ELSE IF Cardinality(res.rows) > 0
        THEN Entries(200, FormatAll(res.rows))
        ELSE Response(404, "No books found",
                "No books with this author were found to delete.", {})]

deleteAuthorQuery(table, query) ==
    deleteAuthorThen(Issue(table, DeleteWhereAuthorLike(table, Wrap(Text(query.author)))))

DeleteAuthorRoute(cred, query) ==
    AdminRoute("deleteAuthor", cred, query, RunChain(deleteAuthorChain(cred, query)),
               deleteAuthorQuery(books, query))

DeleteAuthor(creds, authors) ==
    /\ last.op = "none"
    /\ \E cred \in creds, author \in authors : DeleteAuthorRoute(cred, [author |-> author])

\* DELETE ... WHERE isbn13 = $1 RETURNING *
DeleteWhereIsbn(table, param) ==
    IF ~IsDbInt(param) THEN StmtError("other", table)
    ELSE DeleteRows(table, {r \in table : r.isbn13 = DbInt(param)})

\* DELETE /adminBook/isbn/:isbn: first guard
deleteIsbnValid(params) ==
    IF Ge(parseInt(params.isbn), 0)
    THEN Pass
    ELSE Reply(400, "Invalid ISBN",
            "Invalid ISBN, use a nonnegative number.")

deleteIsbnChain(cred, params) == closedRoutes(cred) \o <<deleteIsbnValid(params)>>

\* DELETE /adminBook/isbn/:isbn: the handler's then/catch on the result of the DELETE
deleteIsbnThen(res) ==
    [table |-> res.table, queries |-> 1,
     response |->
        IF res.err # "none" THEN ServerError
        ELSE IF Cardinality(res.rows) > 0
        THEN Entries(200, FormatAll(res.rows))
        ELSE Response(404, "ISBN Number not found in database",
                "ISBN Number not found in database", {})]

deleteIsbnQuery(table, params) ==
    deleteIsbnThen(Issue(table, DeleteWhereIsbn(table, params.isbn)))

DeleteIsbnRoute(cred, params) ==
    AdminRoute("deleteIsbn", cred, params, RunChain(deleteIsbnChain(cred, params)),
               deleteIsbnQuery(books, params))

DeleteIsbn(creds, isbns) ==
    /\ last.op = "none"
    /\ \E cred \in creds, isbn \in isbns : DeleteIsbnRoute(cred, [isbn |-> isbn])

\* PUT /adminBook/changeValues: first guard
changeValuesValid(body) ==
    IF /\ isStringProvided(body.author)
       /\ isStringProvided(body.title)
       /\ isStringProvided(body.new_title) \/ IsNullish(body.new_title)
       /\ isNumberProvided(body.new_year) \/ IsNullish(body.new_year)
       /\ isNumberProvided(body.new_isbn) \/ IsNullish(body.new_isbn)
       /\ isStringProvided(body.new_author) \/ IsNullish(body.new_author)
    THEN Pass
    ELSE Reply(400, "Missing/Bad information",
            "Missing or bad information, see documentation.")

changeValuesChain(cred, body) == closedRoutes(cred) \o <<changeValuesValid(body)>>

\* the columns the SET clause names: one for every new_* field that is != null
changeValuesCols(body) ==
    {c \in {"new_title", "new_author", "new_isbn", "new_year"} : ~IsNullish(body[c])}

\* a row with the columns of the SET clause assigned
changeValuesSet(r, body, cols) ==
    [r EXCEPT
        !.title = IF "new_title" \in cols THEN Text(body.new_title) ELSE @,
        !.authors = IF "new_author" \in cols THEN Text(body.new_author) ELSE @,
        !.isbn13 = IF "new_isbn" \in cols THEN DbInt(body.new_isbn) ELSE @,
        !.publication_year = IF "new_year" \in cols THEN DbInt(body.new_year) ELSE @]

\* UPDATE books SET ... RETURNING * on the rows hit: a value that is no integer
\* fails the statement
UpdateSet(table, hit, body, cols) ==
    IF \/ "new_isbn" \in cols /\ ~IsDbInt(body.new_isbn)
       \/ "new_year" \in cols /\ ~IsDbInt(body.new_year)
    THEN StmtError("other", table)
    ELSE ReplaceRows(table, hit, {changeValuesSet(r, body, cols) : r \in hit})

\* UPDATE books SET ... WHERE authors LIKE $n AND title LIKE $m RETURNING *
\* (the author and the title are passed as they are)
UpdateValues(table, body) ==
    UpdateSet(table, WhereAuthorTitleLike(table, Text(body.author), Text(body.title)),
              body, changeValuesCols(body))

\* changeValuesThen with a catch that does not look at error.detail
changeValuesThenPlain(res) ==
    [table |-> res.table, queries |-> 1,
     response |->
        IF res.err # "none" THEN ServerError
        ELSE IF Cardinality(res.rows) > 0
        THEN Entries(201, FormatAll(res.rows))
        ELSE Response(404, "No book found with that combination of author and title",
                "No book found with given author and title.", {})]

\* PUT /adminBook/changeValues: the handler's then/catch on the result of the UPDATE
changeValuesThen(res) ==
    [table |-> res.table, queries |-> 1,
     response |->
        IF res.err = "unique"
        THEN Response(400, "Book already exists",
                "Book already exists in database.", {})
        ELSE IF res.err # "none" THEN ServerError
        ELSE IF Cardinality(res.rows) > 0
        THEN Entries(201, FormatAll(res.rows))
        ELSE Response(404, "No book found with that combination of author and title",
                "No book found with given author and title.", {})]

\* PUT /adminBook/changeValues: the last handler
changeValuesUpdate(table, body) ==
    IF changeValuesCols(body) = {}
    THEN [table |-> table, queries |-> 0,
          response |-> Response(400, "No valid update values provided",
                "No valid update values were passed.", {})]
    ELSE changeValuesThen(Issue(table, UpdateValues(table, body)))

ChangeValuesRoute(cred, body) ==
    AdminRoute("changeValues", cred, body, RunChain(changeValuesChain(cred, body)),
               changeValuesUpdate(books, body))

ChangeValues(creds, bodies) ==
    /\ last.op = "none"
    /\ \E cred \in creds, body \in bodies : ChangeValuesRoute(cred, body)

\* PUT /adminBook/addRating: the guard of the body, then the guard of the rating
addRatingValid(body) ==
    IF /\ isStringProvided(body.author)
       /\ isStringProvided(body.title)
       /\ isNumberProvided(body.rating)
    THEN Pass
    ELSE Reply(400, "Missing/Bad information",
            "Missing or bad information, see documentation.")

addRatingRange(body) ==
    IF Ge(body.rating, 10) /\ Le(body.rating, 50)
    THEN Pass
    ELSE Reply(400, "Invalid rating",
            "Invalid rating, use a number 0-5.")

addRatingChain(cred, body) ==
    closedRoutes(cred) \o <<addRatingValid(body), addRatingRange(body)>>

\* 'rating_' + rating + '_star' names a column of the table: the number of the
\* column, or 0 when there is no such column
columnName(rating) ==
    CASE rating.k = "num" /\ rating.n \in {10, 20, 30, 40, 50} -> rating.n \div 10
      [] rating.k = "str" /\ Len(rating.s) = 1 /\ rating.s[1] \in {"1", "2", "3", "4", "5"}
            -> DigitVal(rating.s[1])
      [] OTHER -> 0

\* Rated without the increment of the star bucket
RatedCountOnly(r, k) == [r EXCEPT !.rating_count = @ + 1]

\* Rated without the increment of rating_count
RatedBucketOnly(r, k) ==
    [r EXCEPT !.rating_1_star = IF k = 1 THEN @ + 1 ELSE @,
              !.rating_2_star = IF k = 2 THEN @ + 1 ELSE @,
              !.rating_3_star = IF k = 3 THEN @ + 1 ELSE @,
              !.rating_4_star = IF k = 4 THEN @ + 1 ELSE @,
              !.rating_5_star = IF k = 5 THEN @ + 1 ELSE @]

\* Rated with rating_avg set to the mean of the old average and the new rating
RatedAveraged(r, k) ==
    [r EXCEPT !.rating_count = @ + 1,
              !.rating_avg = (@ * r.rating_count + k * 10) \div (r.rating_count + 1),
              !.rating_1_star = IF k = 1 THEN @ + 1 ELSE @,
              !.rating_2_star = IF k = 2 THEN @ + 1 ELSE @,
              !.rating_3_star = IF k = 3 THEN @ + 1 ELSE @,
              !.rating_4_star = IF k = 4 THEN @ + 1 ELSE @,
              !.rating_5_star = IF k = 5 THEN @ + 1 ELSE @]

\* a row with column rating_<k>_star and rating_count one larger
Rated(r, k) ==
    [r EXCEPT !.rating_count = @ + 1,
              !.rating_1_star = IF k = 1 THEN @ + 1 ELSE @,
              !.rating_2_star = IF k = 2 THEN @ + 1 ELSE @,
              !.rating_3_star = IF k = 3 THEN @ + 1 ELSE @,
              !.rating_4_star = IF k = 4 THEN @ + 1 ELSE @,
              !.rating_5_star = IF k = 5 THEN @ + 1 ELSE @]

\* UpdateRatingOf with the UPDATE stopping after the first row it hit
UpdateRatingOfOne(table, hit, k) ==
    IF k = 0 THEN StmtError("other", table)
    ELSE IF hit = {} THEN StmtOk({}, table)
    ELSE ReplaceRows(table, {CHOOSE r \in hit : TRUE}, {Rated(CHOOSE r \in hit : TRUE, k)})

\* UPDATE books SET <col> = <col> + 1, rating_count = rating_count + 1 on the
\* rows hit; the statement fails when <col> is no column
UpdateRatingOf(table, hit, k) ==
    IF k = 0 THEN StmtError("other", table)
    ELSE ReplaceRows(table, hit, {Rated(r, k) : r \in hit})

\* ... WHERE authors LIKE $1 AND title LIKE $2 RETURNING *
UpdateRating(table, body) ==
    UpdateRatingOf(table,
                   WhereAuthorTitleLike(table, Wrap(Text(body.author)), Wrap(Text(body.title))),
                   columnName(body.rating))

\* addRatingThen with a then that answers 404 when the UPDATE changed no row
addRatingThenChecked(res) ==
    [table |-> res.table,
     response |-> IF res.err # "none" THEN ServerError
                  ELSE IF res.rows = {}
                  THEN Response(404, "Book and Author do not match",
                            "Book not written by specified author.", {})
                  ELSE Entries(201, FormatAll(res.rows))]

\* the last handler's then/catch on the result of the UPDATE
addRatingThen(res) ==
    [table |-> res.table,
     response |-> IF res.err = "none" THEN Entries(201, FormatAll(res.rows))
                  ELSE ServerError]

addRatingUpdate(table, body) == addRatingThen(Issue(table, UpdateRating(table, body)))

AddRatingRoute(cred, body, chain) ==
    IF chain.passed
    THEN /\ \A r \in books : r.rating_count < MaxCount
         /\ Accept(Pending("addRating", cred, body, chain, "title"))
    ELSE Rejected("addRating", cred, body, chain)

\* the request arrives: the two guards run, and the first statement is issued
AddRatingStart(creds, bodies) ==
    /\ last.op = "none"
    /\ \E cred \in creds, body \in bodies :
        AddRatingRoute(cred, body, RunChain(addRatingChain(cred, body)))

\* a request that passed its guards arrives while other requests are between
\* two statements, and waits for its first statement beside them
AcceptBeside(pending) ==
    /\ Len(inflight) >= 1 /\ Len(inflight) <= MaxInflight
    /\ inflight' = Append(inflight, pending)
    /\ UNCHANGED <<books, nextId, last, pool>>

\* PUT /adminBook/addRating: a request arrives while another one is served
AddRatingBeside(creds, bodies) ==
    /\ last.op = "none"
    /\ \E cred \in creds, body \in bodies :
        /\ RunChain(addRatingChain(cred, body)).passed
        /\ \A r \in books : r.rating_count < MaxCount
        /\ AcceptBeside(Pending("addRating", cred, body,
                                RunChain(addRatingChain(cred, body)), "title"))

\* addRatingTitleMissing with the message of the check of the author
addRatingTitleMisnamed ==
    Response(404, "Author not found in database", "Author not found in database.", {})

\* the 404 responses of the three existence checks
addRatingAuthorMissing ==
    Response(404, "Author not found in database", "Author not found in database.", {})
addRatingTitleMissing ==
    Response(404, "Title not found in database", "Title not found in database.", {})
addRatingPairMissing ==
    Response(404, "Book and Author do not match",
        "Book not written by specified author.", {})

\* the SELECTs of the three existence checks
addRatingTitleRows(table, body) ==
    SelectRows(table, WhereTitleLike(table, Wrap(Text(body.title))))
addRatingAuthorRows(table, body) ==
    SelectRows(table, WhereAuthorLike(table, Wrap(Text(body.author))))
addRatingPairRows(table, body) ==
    SelectRows(table, WhereAuthorTitleLike(table, Wrap(Text(body.author)),
                                           Wrap(Text(body.title))))

\* //validate title
AddRatingTitle ==
    /\ last.op = "none"
    /\ \E i \in 1..Len(inflight) :
        /\ inflight[i].op = "addRating" /\ inflight[i].pc = "title"
        /\ ExistsThen(i, Issue(books, addRatingTitleRows(books, inflight[i].req)),
                      "author", addRatingTitleMissing)

\* //validate author
AddRatingAuthor ==
    /\ last.op = "none"
    /\ \E i \in 1..Len(inflight) :
        /\ inflight[i].op = "addRating" /\ inflight[i].pc = "author"
        /\ ExistsThen(i, Issue(books, addRatingAuthorRows(books, inflight[i].req)),
                      "pair", addRatingAuthorMissing)

\* //verify book is written by the author
AddRatingPair ==
    /\ last.op = "none"
    /\ \E i \in 1..Len(inflight) :
        /\ inflight[i].op = "addRating" /\ inflight[i].pc = "pair"
        /\ ExistsThen(i, Issue(books, addRatingPairRows(books, inflight[i].req)),
                      "update", addRatingPairMissing)

FinishWith(i, out) == Finish(i, out.response, out.table)

\* the UPDATE and the handler's then/catch
AddRatingUpdate ==
    /\ last.op = "none"
    /\ \E i \in 1..Len(inflight) :
        /\ inflight[i].op = "addRating" /\ inflight[i].pc = "update"
        /\ FinishWith(i, addRatingUpdate(books, inflight[i].req))

-----------------------------------------------------------------------------
(* A route behind checkParamsIdToJwtId *)

\* checkParamsIdToJwtId: the 400 is written when the ids differ, and next() is
\* called in either case
checkParamsIdToJwtId(request) ==
    [next |-> TRUE,
     sent |-> IF request.params_id # request.claims_id
              THEN <<Response(400, "", "Credentials do not match for this user.", {})>>
              ELSE <<>>]

CheckParamsRoute(request, chain) ==
    /\ last' = Done("checkParamsIdToJwtId", "user", request, chain, chain.sent, 0, books)
    /\ UNCHANGED <<books, nextId, inflight, pool>>

\* a request to a route whose guard is checkParamsIdToJwtId
CheckParamsIdToJwtId(ids) ==
    /\ last.op = "none"
    /\ \E pid \in ids, cid \in ids :
        CheckParamsRoute([params_id |-> pid, claims_id |-> cid],
            RunChain(<<checkParamsIdToJwtId([params_id |-> pid, claims_id |-> cid])>>))

-----------------------------------------------------------------------------
(* Request inputs *)

\* the strings "1999", "2000" and the year after the current one
Y1999 == <<"1", "9", "9", "9">>

\* a body with only the required fields
Body(isbn13, authors, publication, title) ==
    [isbn13 |-> isbn13, authors |-> authors, publication |-> publication,
     original_title |-> Undef, title |-> title, average |-> Undef,
     count |-> Undef, rating_1 |-> Undef, rating_2 |-> Undef,
     rating_3 |-> Undef, rating_4 |-> Undef, rating_5 |-> Undef,
     large |-> Undef, small |-> Undef]

BodyA == Body(Int10(1), Str(<<"a">>), Int10(2000), Str(<<"x">>))
BodyB ==
    [Body(Str(<<"2">>), Str(<<"a", "b">>), Str(Y1999), Str(<<"x", "y">>))
        EXCEPT !.original_title = Str(<<"o">>), !.average = Str(<<"3", ".", "5">>),
               !.count = Int10(1), !.rating_3 = Str(<<"1">>),
               !.large = Str(<<"l">>), !.small = Str(<<"s">>)]

\* values tried for one field of a body, the others as in BodyA
FieldValues ==
    [isbn13 |-> {Undef, Int10(0), Int10(2), Int10(-1), Num(15), Str(<<"1", "a">>),
                 Str(<<"a">>), Str(<<>>)},
     authors |-> {Undef, Str(<<>>), Str(<<"b">>)},
     publication |-> {Undef, Int10(0), Int10(CurrentYear), Int10(CurrentYear + 1),
                      Str(<<"x">>), Num(19995)},
     original_title |-> {Str(<<>>), Str(<<"o">>)},
     title |-> {Undef, Str(<<>>)},
     average |-> {Num(0), Num(50), Num(51), Num(-1), Str(<<>>), Str(<<"a">>),
                  Str(<<"3", "a">>)},
     count |-> {Int10(0), Int10(2), Int10(-1), Num(15), Str(<<>>), Str(<<"a">>)},
     rating_1 |-> {Int10(1), Int10(-1), Str(<<>>), Str(<<"a">>)},
     rating_2 |-> {Int10(-1), Str(<<"1", "a">>)},
     rating_3 |-> {Int10(-1), Int10(0)},
     rating_4 |-> {Int10(-1), Num(15)},
     rating_5 |-> {Int10(-1), Str(<<"1">>)},
     large |-> {Str(<<>>), Str(<<"l">>)},
     small |-> {Str(<<>>), Str(<<"s">>)}]

\* bodies that more than one guard refuses: two guards next to each other in the
\* chain, and all of them
FaultyBodies ==
    {[BodyA EXCEPT !.title = Undef, !.isbn13 = Int10(-1)],
     [BodyA EXCEPT !.isbn13 = Int10(-1), !.publication = Int10(CurrentYear + 1)],
     [BodyA EXCEPT !.publication = Str(<<"x">>), !.average = Num(51)],
     [BodyA EXCEPT !.average = Num(51), !.count = Int10(-1)],
     [BodyA EXCEPT !.count = Int10(-1), !.rating_1 = Int10(-1)],
     [BodyA EXCEPT !.authors = Undef, !.isbn13 = Str(<<"a">>), !.publication = Str(<<"x">>),
                   !.average = Num(51), !.count = Int10(-1), !.rating_5 = Int10(-1)]}

AddBookBodies ==
    {BodyA, BodyB} \cup FaultyBodies
        \cup UNION {{[BodyA EXCEPT ![f] = v] : v \in FieldValues[f]} :
                        f \in DOMAIN FieldValues}

\* the bodies the other specifications fill the table with
SeedBodies == {BodyA, BodyB}

\* author query parameters of DELETE /adminBook/author
AuthorQueries ==
    {Undef, Str(<<>>), Str(<<"a">>), Str(<<"b">>), Str(<<"a", "b">>),
     Str(<<"b", "a">>), Str(<<"%">>), Str(<<"_">>)}

\* isbn path parameters of DELETE /adminBook/isbn/:isbn
IsbnParams ==
    {Str(<<"1">>), Str(<<"2">>), Str(<<"3">>), Str(<<"1", "a">>), Str(<<"a">>),
     Str(<<"-", "1">>), Str(<<"1", ".", "5">>)}

\* the string s with zeros in front, to the length of an isbn
Padded(s) == [i \in 1..IsbnLength |->
                IF i <= IsbnLength - Len(s) THEN "0" ELSE s[i - (IsbnLength - Len(s))]]

\* isbn query parameters of GET /book/isbn
IsbnQueries ==
    {Undef, Str(<<>>), Str(<<"1">>), Str(Padded(<<"1">>)), Str(Padded(<<"2">>)),
     Str(Padded(<<"3">>)), Str(Padded(<<"a">>)), Str(Padded(<<"1", "a">>)),
     Str(Padded(<<"1">>) \o <<"0">>), Str(Tail(Padded(<<"1">>))),
     Str(<<"-">> \o Tail(Padded(<<"1">>))), Str(Padded(<<"1", ".", "0">>))}

\* pagenum and perpage query parameters of GET /book/getAll
PageNums ==
    {Undef, Str(<<"a">>), Str(<<"0">>), Str(<<"1">>), Str(<<"2">>), Str(<<"3">>),
     Str(<<"1", ".", "5">>)}
PerPages == {Undef, Str(<<"0">>), Str(<<"1">>), Str(<<"2">>)}

\* bodies of PUT /adminBook/changeValues
ChangeBody(author, title, new_title, new_author, new_isbn, new_year) ==
    [author |-> author, title |-> title, new_title |-> new_title,
     new_author |-> new_author, new_isbn |-> new_isbn, new_year |-> new_year]

\* the new_* fields of a body: none, one, two, values that are no integers, and
\* the year after the current one
NewValues ==
    {<<Undef, Undef, Undef, Undef>>,
     <<Str(<<"x", "y">>), Undef, Undef, Undef>>,
     <<Undef, Str(<<"a", "b">>), Undef, Undef>>,
     <<Undef, Undef, Int10(1), Undef>>,
     <<Undef, Undef, Str(<<"2">>), Undef>>,
     <<Undef, Undef, Num(15), Undef>>,
     <<Undef, Undef, Undef, Int10(1999)>>,
     <<Undef, Undef, Undef, Int10(CurrentYear + 1)>>,
     <<Str(<<"x">>), Undef, Str(<<"3">>), Undef>>}

ChangeBodies ==
    {ChangeBody(a, ti, n[1], n[2], n[3], n[4]) :
        a \in {Str(<<"a">>), Str(<<"%">>)},
        ti \in {Str(<<"x">>), Str(<<"%">>)},
        n \in NewValues}
    \cup {ChangeBody(Undef, Str(<<"x">>), Str(<<"y">>), Undef, Undef, Undef),
          ChangeBody(Str(<<"a">>), Str(<<"x">>), Str(<<>>), Undef, Undef, Undef),
          ChangeBody(Str(<<"a">>), Str(<<"x">>), Undef, Undef, Str(<<"a">>), Undef),
          ChangeBody(Str(<<"a">>), Str(<<"x">>), Undef, Undef, Undef, Num(19995))}

\* a third book, whose author and title are in no other book
BodyC == Body(Int10(3), Str(<<"c">>), Int10(2001), Str(<<"z">>))

\* bodies of PUT /adminBook/addRating: every rating for the one book of author
\* "b" and title "y"; pairs that name two books, a title or an author that no
\* book has, and an author and a title of different books; bodies no guard passes
RatingBodies ==
    {[author |-> Str(<<"b">>), title |-> Str(<<"y">>), rating |-> r] :
        r \in {Int10(1), Int10(2), Int10(3), Int10(4), Int10(5), Str(<<"3">>), Num(25)}}
    \cup {[author |-> a, title |-> Str(<<"x">>), rating |-> Int10(3)] :
            a \in {Str(<<"a">>), Str(<<"c">>), Str(<<"d">>)}}
    \cup {[author |-> Str(<<"a">>), title |-> Str(<<"w">>), rating |-> Int10(3)]}
    \cup {[author |-> Str(<<"a">>), title |-> Str(<<"x">>), rating |-> r] :
            r \in {Undef, Int10(0), Int10(6), Str(<<"a">>)}}
    \cup {[author |-> Undef, title |-> Str(<<"x">>), rating |-> Int10(3)],
          [author |-> Str(<<"a">>), title |-> Str(<<>>), rating |-> Int10(3)]}

\* a few bodies of PUT /adminBook/changeValues: a new isbn for the one book of
\* author "a" and title "x", a new isbn and a new year for every book, no author
FewChangeBodies ==
    {ChangeBody(Str(<<"a">>), Str(<<"x">>), Undef, Undef, Int10(2), Undef),
     ChangeBody(Str(<<"%">>), Str(<<"%">>), Undef, Undef, Str(<<"3">>), Undef),
     ChangeBody(Str(<<"%">>), Str(<<"%">>), Undef, Undef, Undef, Int10(1999)),
     ChangeBody(Undef, Str(<<"x">>), Str(<<"y">>), Undef, Undef, Undef)}

\* a few bodies of PUT /adminBook/addRating
FewRatingBodies ==
    {[author |-> Str(<<"a">>), title |-> Str(<<"x">>), rating |-> Int10(3)],
     [author |-> Str(<<"b">>), title |-> Str(<<"y">>), rating |-> Str(<<"5">>)],
     [author |-> Str(<<"a">>), title |-> Str(<<"x">>), rating |-> Int10(0)]}

\* the ids of users
UserIds == {1, 2}

-----------------------------------------------------------------------------
(* The system *)

Init ==
    /\ books = {}
    /\ nextId = 1
    /\ inflight = <<>>
    /\ last = NoRequest
    /\ pool = "up"

\* every route, in any interleaving, with few different requests
Next ==
    \/ AddBook(SeedBodies)
    \/ DeleteAuthor(Creds, {Str(<<"b">>)})
    \/ DeleteIsbn(Creds, {Str(<<"1">>)})
    \/ ChangeValues(Creds, FewChangeBodies)
    \/ AddRatingStart(Creds, FewRatingBodies)
    \/ AddRatingTitle
    \/ AddRatingAuthor
    \/ AddRatingPair
    \/ AddRatingUpdate
    \/ GetIsbn({Str(Padded(<<"1">>))})
    \/ GetAllStart({Str(<<"1">>)}, {Str(<<"1">>)})
    \/ GetAllMax
    \/ GetAllPage
    \/ CheckParamsIdToJwtId(UserIds)
    \/ Deliver

Spec == Init /\ [][Next]_vars

\* the routes that write, in any interleaving
NextWrites ==
    \/ AddBook(SeedBodies)
    \/ DeleteAuthor({"admin"}, {Str(<<"b">>)})
    \/ DeleteIsbn({"admin"}, {Str(<<"1">>)})
    \/ ChangeValues({"admin"}, FewChangeBodies)
    \/ AddRatingStart({"admin"}, FewRatingBodies)
    \/ AddRatingTitle
    \/ AddRatingAuthor
    \/ AddRatingPair
    \/ AddRatingUpdate
    \/ Deliver

SpecWrites == Init /\ [][NextWrites]_vars

\* POST /book/addBook with every body, and the deletes that empty the table
NextAddBook ==
    \/ AddBook(AddBookBodies)
    \/ DeleteIsbn({"admin"}, {Str(<<"1">>), Str(<<"2">>)})
    \/ Deliver

SpecAddBook == Init /\ [][NextAddBook]_vars

\* the deletes of /adminBook with every parameter
NextDelete ==
    \/ AddBook(SeedBodies)
    \/ DeleteAuthor(Creds, AuthorQueries)
    \/ DeleteIsbn(Creds, IsbnParams)
    \/ Deliver

SpecDelete == Init /\ [][NextDelete]_vars

\* GET /book/isbn with every parameter
NextIsbn ==
    \/ AddBook(SeedBodies)
    \/ DeleteIsbn({"admin"}, {Str(<<"1">>), Str(<<"2">>)})
    \/ GetIsbn(IsbnQueries)
    \/ Deliver

SpecIsbn == Init /\ [][NextIsbn]_vars

\* GET /book/getAll with every parameter, the table changing between its statements
NextPages ==
    \/ AddBook(SeedBodies)
    \/ DeleteIsbn({"admin"}, {Str(<<"1">>), Str(<<"2">>)})
    \/ GetAllStart(PageNums, PerPages)
    \/ GetAllMax
    \/ GetAllPage
    \/ Deliver

SpecPages == Init /\ [][NextPages]_vars

\* PUT /adminBook/changeValues with every body
NextChange ==
    \/ AddBook(SeedBodies)
    \/ ChangeValues({"admin"}, ChangeBodies)
    \/ Deliver

SpecChange == Init /\ [][NextChange]_vars

\* PUT /adminBook/addRating with every body
NextRating ==
    \/ AddBook(SeedBodies \cup {BodyC})
    \/ AddRatingStart({"admin"}, RatingBodies)
    \/ AddRatingTitle
    \/ AddRatingAuthor
    \/ AddRatingPair
    \/ AddRatingUpdate
    \/ Deliver

SpecRating == Init /\ [][NextRating]_vars


\* routes of every shape while the pool fails and recovers: one statement, a
\* then without a catch (getAll), staged checks (author, authortitle, addRating)
NextFaults ==
    \/ AddBook({BodyA})
    \/ GetIsbn({Str(Padded(<<"1">>))})
    \/ GetAllStart({Str(<<"1">>)}, {Str(<<"1">>)})
    \/ GetAllMax
    \/ GetAllPage
    \/ GetAuthorStart({Str(<<"a">>)})
    \/ GetAuthorExists
    \/ GetAuthorSelect
    \/ DeleteAuthor({"admin"}, {Str(<<"a">>)})
    \/ ChangeValues({"admin"}, {ChangeBody(Str(<<"a">>), Str(<<"x">>), Undef, Undef,
                                           Undef, Int10(1999))})
    \/ AddRatingStart({"admin"},
            {[author |-> Str(<<"a">>), title |-> Str(<<"x">>), rating |-> Int10(3)]})
    \/ AddRatingTitle
    \/ AddRatingAuthor
    \/ AddRatingPair
    \/ AddRatingUpdate
    \/ PoolFails
    \/ PoolRecovers
    \/ Deliver

SpecFaults == Init /\ [][NextFaults]_vars

\* author and title strings: of one book, of both books, of none, and a LIKE
\* metacharacter
NameQueries == {Undef, Str(<<"a">>), Str(<<"b">>), Str(<<"d">>), Str(<<"_">>)}
TitleQueries == {Undef, Str(<<"x">>), Str(<<"y">>), Str(<<"w">>)}

\* every route that selects books by an author or a title string
NextSelect ==
    \/ AddBook(SeedBodies)
    \/ GetAuthorStart(NameQueries)
    \/ GetAuthorExists
    \/ GetAuthorSelect
    \/ GetTitle(TitleQueries)
    \/ GetAuthorTitleStart(NameQueries, TitleQueries)
    \/ GetAuthorTitleAuthor
    \/ GetAuthorTitleTitle
    \/ GetAuthorTitlePair
    \/ DeleteAuthor({"admin"}, NameQueries)
    \/ ChangeValues({"admin"},
            {ChangeBody(a, Str(<<"x">>), Undef, Undef, Undef, Int10(1999)) :
                a \in {Str(<<"a">>), Str(<<"b">>)}})
    \/ AddRatingStart({"admin"},
            {[author |-> a, title |-> Str(<<"x">>), rating |-> Int10(3)] :
                a \in {Str(<<"a">>), Str(<<"b">>)}})
    \/ AddRatingTitle
    \/ AddRatingAuthor
    \/ AddRatingPair
    \/ AddRatingUpdate
    \/ Deliver

SpecSelect == Init /\ [][NextSelect]_vars

\* author and title parameters of GET /book/authortitle, free of LIKE
\* metacharacters: missing, empty, of one book, of two books, of no book
PlainAuthors == {Undef, Str(<<>>), Str(<<"a">>), Str(<<"c">>), Str(<<"d">>)}
PlainTitles == {Undef, Str(<<"x">>), Str(<<"z">>), Str(<<"w">>)}

\* GET /book/authortitle with every parameter, the table changing between its
\* statements
NextAuthorTitle ==
    \/ AddBook(SeedBodies \cup {BodyC})
    \/ DeleteIsbn({"admin"}, {Str(<<"1">>), Str(<<"3">>)})
    \/ GetAuthorTitleStart(PlainAuthors, PlainTitles)
    \/ GetAuthorTitleAuthor
    \/ GetAuthorTitleTitle
    \/ GetAuthorTitlePair
    \/ Deliver

SpecAuthorTitle == Init /\ [][NextAuthorTitle]_vars

\* books whose averages are 0 (omitted), 3.5 and 5
BodyD == [BodyC EXCEPT !.average = Int10(5)]

\* min and max parameters of GET /book/ratings: missing, no number, below the
\* range, in it, and above it
RatingQueries ==
    {Undef, Str(<<"a">>), Str(<<"-", "1">>), Str(<<"0">>), Str(<<"3", ".", "5">>),
     Str(<<"5">>), Str(<<"5", ".", "5">>), Str(<<"6">>)}

\* GET /book/ratings with every pair of parameters
NextRatings ==
    \/ AddBook({BodyA, BodyB, BodyD})
    \/ DeleteIsbn({"admin"}, {Str(<<"1">>), Str(<<"2">>)})
    \/ GetRatings(RatingQueries, RatingQueries)
    \/ Deliver

SpecRatings == Init /\ [][NextRatings]_vars

\* the year after the current one, as a query string
Y2025 == <<"2", "0", "2", "5">>

\* every read route of /book, the table changing between the statements of a
\* request and deletes leaving gaps in the ids
NextReads ==
    \/ AddBook(SeedBodies)
    \/ DeleteIsbn({"admin"}, {Str(<<"1">>), Str(<<"2">>)})
    \/ GetAllStart({Str(<<"1">>), Str(<<"2">>)}, {Str(<<"1">>), Str(<<"2">>)})
    \/ GetAllMax
    \/ GetAllPage
    \/ GetAuthorStart({Str(<<"a">>), Str(<<"b">>), Str(<<"d">>)})
    \/ GetAuthorExists
    \/ GetAuthorSelect
    \/ GetTitle({Str(<<"x">>), Str(<<"y">>), Str(<<"w">>)})
    \/ GetYear({Str(Y1999), Str(<<"2", "0", "0", "0">>), Str(<<"1", "9", "9", "8">>),
                Str(Y2025)})
    \/ GetIsbn({Str(Padded(<<"1">>)), Str(Padded(<<"2">>)), Str(Padded(<<"3">>))})
    \/ GetSingleRating({Str(<<"3", ".", "5">>), Str(<<"4">>), Str(<<"0">>)})
    \/ GetRatings({Str(<<"0">>), Str(<<"3", ".", "5">>)}, {Str(<<"3">>), Str(<<"5">>)})
    \/ GetAuthorTitleStart({Str(<<"a">>), Str(<<"b">>)}, {Str(<<"x">>), Str(<<"y">>)})
    \/ GetAuthorTitleAuthor
    \/ GetAuthorTitleTitle
    \/ GetAuthorTitlePair
    \/ Deliver

SpecReads == Init /\ [][NextReads]_vars

\* ratings of 3 and of 5 stars for the books of author "a" and title "x"
RaterBodies ==
    {[author |-> Str(<<"a">>), title |-> Str(<<"x">>), rating |-> r] :
        r \in {Int10(3), Str(<<"5">>)}}

\* PUT /adminBook/addRating: requests for the same books served at the same time
NextRaters ==
    \/ AddBook(SeedBodies)
    \/ AddRatingStart({"admin"}, RaterBodies)
    \/ AddRatingBeside({"admin"}, RaterBodies)
    \/ AddRatingTitle
    \/ AddRatingAuthor
    \/ AddRatingPair
    \/ AddRatingUpdate
    \/ Deliver

SpecRaters == Init /\ [][NextRaters]_vars
-----------------------------------------------------------------------------
(* Properties of the routes.  Each is stated of the request that completed   *)
(* last: `last` holds the request, the guards that ran, every response that  *)
(* was written and the table before the last statement, and `books` is the   *)
(* table right after it.                                                     *)

\* s contains sub as a substring
Contains(s, sub) ==
    \E i \in 0..Len(s) - Len(sub) : SubSeq(s, i + 1, i + Len(sub)) = sub

\* the number a submitted field stands for; an omitted optional field stands for 0
Submitted(v) == IF IsNullish(v) THEN Num(0) ELSE ToNumber(v)
\* the text a submitted field stands for; an omitted optional field stands for ""
SubmittedText(v) == IF IsNullish(v) THEN <<>> ELSE Text(v)

\* the DTO of the fields submitted to addBook
SubmittedBook(body) ==
    [isbn13 |-> Submitted(body.isbn13),
     authors |-> Text(body.authors),
     publication |-> Submitted(body.publication),
     original_title |-> SubmittedText(body.original_title),
     title |-> Text(body.title),
     ratings |-> [average |-> Submitted(body.average),
                  count |-> Submitted(body.count),
                  rating_1 |-> Submitted(body.rating_1),
                  rating_2 |-> Submitted(body.rating_2),
                  rating_3 |-> Submitted(body.rating_3),
                  rating_4 |-> Submitted(body.rating_4),
                  rating_5 |-> Submitted(body.rating_5)],
     icons |-> [large |-> SubmittedText(body.large),
                small |-> SubmittedText(body.small)]]

\* a DTO with its numbers as JavaScript numbers
DtoValues(d) ==
    [isbn13 |-> Int10(d.isbn13),
     authors |-> d.authors,
     publication |-> Int10(d.publication),
     original_title |-> d.original_title,
     title |-> d.title,
     ratings |-> [average |-> Num(d.ratings.average),
                  count |-> Int10(d.ratings.count),
                  rating_1 |-> Int10(d.ratings.rating_1),
                  rating_2 |-> Int10(d.ratings.rating_2),
                  rating_3 |-> Int10(d.ratings.rating_3),
                  rating_4 |-> Int10(d.ratings.rating_4),
                  rating_5 |-> Int10(d.ratings.rating_5)],
     icons |-> d.icons]

\* the table holds a row whose isbn13 is the number v stands for
IsbnStored(table, v) == \E r \in table : Int10(r.isbn13) = ToNumber(v)

\* exactly one response was written for the last request, with this status
Status(status) == Len(last.sent) = 1 /\ last.sent[1].status = status

AlreadyExists == Response(400, "Book already exists", "Book already exists in database.", {})

\* C1: an addBook request that passes every guard and whose isbn13 is not yet
\* stored is answered 201, adds exactly one row, and the DTO returned equals the
\* submitted fields, every omitted optional field taking its default ("" or 0).
C1_AddBookReturnsSubmitted ==
    (/\ last.op = "addBook"
     /\ last.chain.passed
     /\ ~IsbnStored(last.before, last.req.isbn13))
    => /\ Status(201)
       /\ last.before \subseteq books
       /\ Cardinality(books \ last.before) = 1
       /\ {DtoValues(d) : d \in last.sent[1].entries} = {SubmittedBook(last.req)}

\* C2: an addBook request that passes every guard and whose isbn13 is already
\* stored is answered 400 "Book already exists in database.", and the table is
\* as it was.
C2_DuplicateIsbnRejected ==
    (/\ last.op = "addBook"
     /\ last.chain.passed
     /\ IsbnStored(last.before, last.req.isbn13))
    => /\ last.sent = <<AlreadyExists>>
       /\ books = last.before

C2_Witness ==
    /\ last.op = "addBook"
    /\ last.chain.passed
    /\ IsbnStored(last.before, last.req.isbn13)
    /\ Status(400)
    /\ books = last.before
    /\ books # {}

\* the rows a changeValues request names: authors and title match its patterns
Named(table, body) == WhereAuthorTitleLike(table, Text(body.author), Text(body.title))

\* the changeValues request sets isbn13 to an integer, every other value it sets
\* is well-formed, and a second row would get that isbn13: more than one row is
\* named, or a row that is not named has it already
WouldDuplicate(table, body) ==
    /\ ~IsNullish(body.new_isbn) /\ IsDbInt(body.new_isbn)
    /\ IsNullish(body.new_year) \/ IsDbInt(body.new_year)
    /\ \/ Cardinality(Named(table, body)) > 1
       \/ /\ Named(table, body) # {}
          /\ \E o \in table \ Named(table, body) : Int10(o.isbn13) = ToNumber(body.new_isbn)

\* C3: whatever requests were served, in whatever interleaving, no two stored
\* books have the same isbn13; and a changeValues request whose new_isbn would
\* give a second row an isbn13 is answered 400 "Book already exists in
\* database." and changes no row.
C3_IsbnUnique ==
    /\ UniqueIsbn(books)
    /\ (/\ last.op = "changeValues"
        /\ last.chain.passed
        /\ WouldDuplicate(last.before, last.req))
       => /\ last.sent = <<AlreadyExists>>
          /\ books = last.before

C3_Witness ==
    /\ last.op = "changeValues"
    /\ last.chain.passed
    /\ WouldDuplicate(last.before, last.req)
    /\ Cardinality(Named(last.before, last.req)) = 1
    /\ Cardinality(books) = 2
    /\ Status(400)

\* the rows whose authors field contains the string
WithAuthor(table, author) == {r \in table : Contains(r.authors, author)}

\* C4: DELETE /adminBook/author with a non-empty author removes the rows whose
\* authors field contains the author as a substring and no other row, answers 200
\* with exactly the removed rows, and no stored row contains the author
\* afterwards; when no row contains it, the answer is 404 and the table is as it
\* was.
C4_DeleteAuthorSubstring ==
    (/\ last.op = "deleteAuthor"
     /\ isStringProvided(last.req.author))
    => /\ books = last.before \ WithAuthor(last.before, Text(last.req.author))
       /\ WithAuthor(books, Text(last.req.author)) = {}
       /\ IF WithAuthor(last.before, Text(last.req.author)) # {}
          THEN last.sent =
                <<Entries(200, FormatAll(WithAuthor(last.before, Text(last.req.author))))>>
          ELSE Status(404)

\* the isbn parameter is missing, not numeric, or not 13 characters long
IsbnMalformed(v) == IsNullish(v) \/ ToNumber(v).k # "num" \/ Len(v.s) # IsbnLength
\* the isbn parameter is 13 digits
IsbnDigits(v) ==
    v.k = "str" /\ Len(v.s) = IsbnLength /\ \A i \in 1..Len(v.s) : IsDigit(v.s[i])
\* the rows whose isbn13 is the number the digits stand for
WithIsbn(table, digits) == {r \in table : r.isbn13 = DigitsValue(digits)}

RatingIs(body, k) == body.rating = Int10(k) \/ body.rating = Str(<<Digits[k + 1]>>)

\* the rows of the pair: authors contains the author and title the title
PairRows(table, body) ==
    {r \in table : Contains(r.authors, Text(body.author)) /\ Contains(r.title, Text(body.title))}

\* the number of ratings of k stars of a row
Stars(r, k) ==
    CASE k = 1 -> r.rating_1_star
      [] k = 2 -> r.rating_2_star
      [] k = 3 -> r.rating_3_star
      [] k = 4 -> r.rating_4_star
      [] k = 5 -> r.rating_5_star

\* row new is row old after one more rating of k stars, and nothing else
RatedOnce(old, new, k) ==
    /\ new.id = old.id
    /\ \A j \in 1..5 : Stars(new, j) = Stars(old, j) + (IF j = k THEN 1 ELSE 0)
    /\ new.rating_count = old.rating_count + 1
    /\ new.rating_avg = old.rating_avg
    /\ \A c \in {"isbn13", "authors", "publication_year", "original_title", "title",
                 "image_url", "image_small_url"} : new[c] = old[c]

\* C6: an addRating request with rating k in 1..5 for a pair of author and title
\* that is stored is answered 201, and in every book of the pair rating_k_star
\* is larger by 1, rating_count is larger by 1, and rating_avg and the other
\* four star buckets are as before; the updated books are the ones returned, and
\* no other row changes.
C6_AddRatingIncrements ==
    \A k \in 1..5 :
        (/\ last.op = "addRating"
         /\ last.chain.passed
         /\ RatingIs(last.req, k)
         /\ PairRows(last.before, last.req) # {})
        => /\ Status(201)
           /\ \A old \in PairRows(last.before, last.req) :
                \E new \in books : RatedOnce(old, new, k)
           /\ last.before \ PairRows(last.before, last.req) \subseteq books
           /\ Cardinality(books) = Cardinality(last.before)
           /\ last.sent[1].entries = FormatAll(books \ last.before)

C6_Witness ==
    /\ last.op = "addRating"
    /\ RatingIs(last.req, 5)
    /\ Cardinality(PairRows(last.before, last.req)) = 1
    /\ Cardinality(last.before) = 2
    /\ Status(201)
    /\ \E r \in books :
        r.rating_5_star = 1 /\ r.rating_3_star = 1 /\ r.rating_count = 2 /\ r.rating_avg = 35

\* pagenum and perpage of the last request, in tenths
PageNum == ToNumber(last.req.pagenum).n
PerPage == ToNumber(last.req.perpage).n
\* the largest id, as SELECT MAX(id) found it for the last request
MaxIdRead == IF last.queries = 1 THEN MaxId(last.before) ELSE last.aux
\* ceil(maxId / perpage)
LastPage == CeilDiv(MaxIdRead * 10, PerPage)

\* C7: GET /book/getAll with numbers pagenum >= 1 and perpage >= 1 answers 400
\* "Page outside of range" whenever pagenum > ceil(maxId / perpage), maxId being
\* the largest stored id (0 for the empty table, where every page is outside);
\* it answers 200 only when pagenum <= ceil(maxId / perpage).
C7_PageOutsideOfRange ==
    (/\ last.op = "getAll"
     /\ ToNumber(last.req.pagenum).k = "num" /\ PageNum >= 10
     /\ ToNumber(last.req.perpage).k = "num" /\ PerPage >= 10)
    => /\ PageNum > LastPage * 10
            => Status(400) /\ last.sent[1].statusMessage = "Page outside of range"
       /\ Status(200) => PageNum <= LastPage * 10

C7_Witness ==
    /\ last.op = "getAll"
    /\ last.before # {}
    /\ PageNum = 30 /\ PerPage = 20 /\ MaxIdRead = 3
    /\ Status(400)
    /\ last.sent[1].statusMessage = "Page outside of range"

\* the routes of /adminBook that write
AdminWrites == {"deleteAuthor", "deleteIsbn", "changeValues", "addRating"}

\* C8: a write of /adminBook changes the table only for a request whose token
\* has the admin role; any other request is answered 401 or 403 before a
\* statement is issued, and the table is as it was.
C8_AdminOnly ==
    /\ \A i \in 1..Len(inflight) :
        inflight[i].op \in AdminWrites => inflight[i].cred = "admin"
    /\ (last.op \in AdminWrites /\ last.cred # "admin")
       => /\ last.queries = 0
          /\ books = last.before
          /\ Status(401) \/ Status(403)

\* C9: no step changes the rating_avg of a stored book: from its INSERT to its
\* DELETE a row has the rating_avg it was inserted with, however many ratings
\* are added and whatever changeValues sets.
C9_RatingAvgFrozen ==
    [][\A old \in books : \A new \in books' :
            new.id = old.id => new.rating_avg = old.rating_avg]_vars

C9_Witness ==
    /\ last.op = "addRating"
    /\ Status(201)
    /\ \E r \in books :
        /\ r.isbn13 = 1
        /\ r.rating_avg = 0
        /\ r.rating_3_star = 1
        /\ r.publication_year = 1999

\* C10: at most one response is written for a request, and a guard that wrote a
\* response did not pass control on: when the guards wrote a response, the chain
\* ended there.
C10_OneResponse ==
    /\ Len(last.sent) <= 1
    /\ last.chain.sent # <<>> => ~last.chain.passed

\* C11: a request whose handler issued a statement is answered, by exactly one
\* response; when the statement it issued last failed because the store could not
\* be reached, that response is the generic 500 "Server error - contact support".
C11_FailureAnswered ==
    last.queries >= 1 =>
        /\ Len(last.sent) = 1
        /\ pool = "down" => last.sent[1] = ServerError

\* the rows of the table whose title contains the string
WithTitle(table, title) == {r \in table : Contains(r.title, title)}

\* the rows the last request names by its author and title strings, when those
\* select by substring
Matching(table) ==
    CASE last.op \in {"getAuthor", "deleteAuthor"} -> WithAuthor(table, Text(last.req.author))
      [] last.op = "getTitle" -> WithTitle(table, Text(last.req.title))
      [] OTHER -> WithAuthor(table, Text(last.req.author))
                    \cap WithTitle(table, Text(last.req.title))

\* the number of statements after which a route has selected its books
SelectsAt ==
    [getAuthor |-> 2, getTitle |-> 1, getAuthorTitle |-> 3, deleteAuthor |-> 1,
     changeValues |-> 1, addRating |-> 4]

\* the last request selected books by an author or a title string, and its
\* selecting statement did not fail
Selected ==
    /\ last.op \in DOMAIN SelectsAt
    /\ last.queries = SelectsAt[last.op]
    /\ Len(last.sent) = 1
    /\ last.sent[1] \notin {ServerError, AlreadyExists}

\* C12: a route that selects books by an author or a title string selects exactly
\* the rows whose field contains the string: it returns as many entries as rows
\* contain it, and a route that reads or deletes returns exactly those rows.
C12_SubstringSelection ==
    Selected =>
        /\ Cardinality(last.sent[1].entries) = Cardinality(Matching(last.before))
        /\ last.op \notin {"changeValues", "addRating"} =>
                last.sent[1].entries = FormatAll(Matching(last.before))

\* a new_* field is provided
Provided(v) == ~IsNullish(v)
\* a provided field has the wrong type: a text field holds no non-empty string, a
\* number field holds nothing that reads as a number
WrongText(v) == Provided(v) /\ ~(v.k = "str" /\ v.s # <<>>)
WrongNumber(v) == Provided(v) /\ (v = Str(<<>>) \/ ToNumber(v).k # "num")
WrongType(body) ==
    \/ WrongText(body.new_title) \/ WrongText(body.new_author)
    \/ WrongNumber(body.new_isbn) \/ WrongNumber(body.new_year)

NoValues ==
    Response(400, "No valid update values provided",
        "No valid update values were passed.", {})

\* every provided new_* value of the body is the value of its column in DTO e
Replaced(e, body) ==
    /\ Provided(body.new_title) => e.title = Text(body.new_title)
    /\ Provided(body.new_author) => e.authors = Text(body.new_author)
    /\ Provided(body.new_isbn) => Int10(e.isbn13) = ToNumber(body.new_isbn)
    /\ Provided(body.new_year) => Int10(e.publication) = ToNumber(body.new_year)

\* what C13 asks of a changeValues request with this body, served on table before
ChangeValuesOutcome(body, before) ==
    IF \A f \in {"new_title", "new_author", "new_isbn", "new_year"} : ~Provided(body[f])
    THEN last.sent = <<NoValues>> /\ last.queries = 0 /\ books = before
    ELSE IF WrongType(body) THEN Status(400) /\ books = before
    ELSE IF Named(before, body) = {} THEN Status(404) /\ books = before
    ELSE IF WouldDuplicate(before, body) THEN last.sent = <<AlreadyExists>>
    ELSE /\ Status(201)
         /\ Cardinality(last.sent[1].entries) = Cardinality(Named(before, body))
         /\ \A e \in last.sent[1].entries : Replaced(e, body)
         /\ Cardinality(books) = Cardinality(before)

\* C13: a changeValues request with author and title present is answered 400 "No
\* valid update values were passed." without a statement when it provides no new_*
\* field, 400 when a provided new_* field has the wrong type, 404 with the table
\* unchanged when no book matches author and title, and otherwise (the duplicate
\* isbn13 of C3 apart) 201 with the updated rows, every provided new_* value in
\* its column.
C13_ChangeValues ==
    (/\ last.op = "changeValues"
     /\ isStringProvided(last.req.author)
     /\ isStringProvided(last.req.title))
    => ChangeValuesOutcome(last.req, last.before)

\* a book's title contains the title of the body; a book's authors contain its
\* author; one book does both
TitleFound(table, body) == WithTitle(table, Text(body.title)) # {}
AuthorFound(table, body) == WithAuthor(table, Text(body.author)) # {}
PairFound(table, body) ==
    WithAuthor(table, Text(body.author)) \cap WithTitle(table, Text(body.title)) # {}

\* the only response written is a 404 with this message
NotFound(sent, message) ==
    Len(sent) = 1 /\ sent[1].status = 404 /\ sent[1].message = message

\* request i of addRating goes on to its next statement in this step: the check
\* it was waiting for has passed on the table as it is, and the next is due
AddRatingPasses(i) ==
    CASE inflight[i].pc = "title" ->
            TitleFound(books, inflight[i].req) /\ inflight'[i].pc = "author"
      [] inflight[i].pc = "author" ->
            AuthorFound(books, inflight[i].req) /\ inflight'[i].pc = "pair"
      [] inflight[i].pc = "pair" ->
            PairFound(books, inflight[i].req) /\ inflight'[i].pc = "update"
      [] OTHER -> FALSE

\* an addRating request is answered in this step, after n statements: by the 404
\* of the check that failed on the table as it is, no row modified, or, after the
\* UPDATE, by a 201 or the generic 500
AddRatingAnswers(n, req, sent) ==
    CASE n = 1 -> /\ ~TitleFound(books, req)
                  /\ NotFound(sent, "Title not found in database.")
                  /\ books' = books
      [] n = 2 -> /\ ~AuthorFound(books, req)
                  /\ NotFound(sent, "Author not found in database.")
                  /\ books' = books
      [] n = 3 -> /\ ~PairFound(books, req)
                  /\ NotFound(sent, "Book not written by specified author.")
                  /\ books' = books
      [] n = 4 -> Len(sent) = 1 /\ sent[1].status \in {201, 500}
      [] OTHER -> FALSE

AddRatingStep ==
    /\ \A i \in 1..Len(inflight) :
          (/\ Len(inflight') = Len(inflight)
           /\ inflight[i].op = "addRating"
           /\ inflight'[i].pc # inflight[i].pc)
          => AddRatingPasses(i) /\ books' = books
    /\ (last' # last /\ last'.op = "addRating" /\ last'.queries >= 1)
          => AddRatingAnswers(last'.queries, last'.req, last'.sent)

IntegerRating(v) ==
    /\ ~IsNullish(v) /\ v # Str(<<>>)
    /\ ToNumber(v) \in {Num(10), Num(20), Num(30), Num(40), Num(50)}

\* C15: an addRating request whose rating is not one of the integers 1..5 is
\* answered 400 by a guard, no statement issued and no row modified; no such
\* request is ever waiting for one of the statements of the handler.
C15_RatingIsOneToFive ==
    /\ (last.op = "addRating" /\ ~IntegerRating(last.req.rating))
        => Status(400) /\ last.queries = 0 /\ books = last.before
    /\ \A i \in 1..Len(inflight) :
        inflight[i].op = "addRating" => IntegerRating(inflight[i].req.rating)

\* the value names a year after the current one
FutureYear(v) == Provided(v) /\ LtNum(Int10(CurrentYear), ToNumber(v))

\* the last request was answered 400 and left the table as it was
Refused == Status(400) /\ books = last.before

\* C16: a request that sets a publication year after the current year (addBook's
\* publication, changeValues' new_year) is answered 400 and changes nothing, so
\* no stored book has a publication_year after the current year.
C16_NoFutureYear ==
    /\ \A r \in books : r.publication_year <= CurrentYear
    /\ (last.op = "addBook" /\ FutureYear(last.req.publication)) => Refused
    /\ (last.op = "changeValues" /\ FutureYear(last.req.new_year)) => Refused

\* a provided average that is no number of 0..5; a provided count or star bucket
\* that is no nonnegative number
BadAverage(v) == Provided(v) /\ ~(GeNum(ToNumber(v), 0) /\ LeNum(ToNumber(v), 50))
BadCount(v) == Provided(v) /\ ~GeNum(ToNumber(v), 0)
BadRatings(body) ==
    \/ BadAverage(body.average)
    \/ \E f \in {"count", "rating_1", "rating_2", "rating_3", "rating_4", "rating_5"} :
          BadCount(body[f])

\* the rating aggregate of a row is in range
RatingsInRange(r) ==
    /\ 0 <= r.rating_avg /\ r.rating_avg <= 50
    /\ r.rating_count >= 0
    /\ \A k \in 1..5 : Stars(r, k) >= 0

\* C17: every stored book has 0 <= rating_avg <= 5, rating_count >= 0 and every
\* star bucket >= 0; an addBook request whose average is not a number of 0..5, or
\* whose count or a star bucket is negative or not a number, is answered 400
\* and inserts nothing.
C17_RatingsInRange ==
    /\ \A r \in books : RatingsInRange(r)
    /\ (last.op = "addBook" /\ BadRatings(last.req)) => Refused

\* the UPDATE of the last addRating request ran, for one of the five ratings, and
\* no book matched author and title any more
UpdatedNothing ==
    /\ last.op = "addRating"
    /\ last.queries = 4
    /\ \E k \in 1..5 : RatingIs(last.req, k)
    /\ PairRows(last.before, last.req) = {}

\* C18: the UPDATE of addRating runs on the table as it is by then, not as the
\* existence checks saw it: when another request has removed or renamed the book
\* in between, the request is still answered 201, with no entries, and no row is
\* changed.
C18_UpdateAfterStaleCheck ==
    UpdatedNothing => last.sent = <<Entries(201, {})>> /\ books = last.before

C18_Witness ==
    /\ UpdatedNothing
    /\ Status(201)
    /\ last.sent[1].entries = {}
    /\ books # {}

\* the only response written has this status and this status message
Answer(sent, status, statusMessage) ==
    Len(sent) = 1 /\ sent[1].status = status /\ sent[1].statusMessage = statusMessage

\* request i of GET /book/authortitle goes on to its next statement in this step
AuthorTitlePasses(i) ==
    CASE inflight[i].pc = "author" ->
            AuthorFound(books, inflight[i].req) /\ inflight'[i].pc = "title"
      [] inflight[i].pc = "title" ->
            TitleFound(books, inflight[i].req) /\ inflight'[i].pc = "pair"
      [] OTHER -> FALSE

\* a GET /book/authortitle request is answered in this step, after n statements
AuthorTitleAnswers(n, req, sent) ==
    CASE n = 0 -> /\ ~isStringProvided(req.author) \/ ~isStringProvided(req.title)
                  /\ Len(sent) = 1 /\ sent[1].status = 400
      [] n = 1 -> /\ ~AuthorFound(books, req)
                  /\ Answer(sent, 404, "Author does not exist")
      [] n = 2 -> /\ ~TitleFound(books, req)
                  /\ Answer(sent, 404, "Book does not exist")
      [] n = 3 -> IF PairFound(books, req)
                  THEN sent = <<Entries(200, FormatAll(PairRows(books, req)))>>
                  ELSE Answer(sent, 400, "Book and Author do not match")
      [] OTHER -> FALSE

AuthorTitleStep ==
    /\ \A i \in 1..Len(inflight) :
          (/\ Len(inflight') = Len(inflight)
           /\ inflight[i].op = "getAuthorTitle"
           /\ inflight'[i].pc # inflight[i].pc)
          => AuthorTitlePasses(i)
    /\ \A i \in 1..Len(inflight') :
          inflight'[i].op = "getAuthorTitle"
          => isStringProvided(inflight'[i].req.author)
             /\ isStringProvided(inflight'[i].req.title)
    /\ (last' # last /\ last'.op = "getAuthorTitle")
          => AuthorTitleAnswers(last'.queries, last'.req, last'.sent) /\ books' = books

\* C19: GET /book/authortitle answers 400 when author or title is missing; else
\* it checks the author, then the title, then both together: 404 "Author does not
\* exist" when no book contains the author, whatever the title; else 404 "Book
\* does not exist" when no book contains the title; else 400 "Book and Author do
\* not match" when no one book contains both; else 200 with exactly the books
\* that contain both.
C19_AuthorTitleChecksInOrder == [][AuthorTitleStep]_vars

C19_Witness ==
    /\ last.op = "getAuthorTitle"
    /\ last.queries = 3
    /\ Answer(last.sent, 400, "Book and Author do not match")
    /\ AuthorFound(books, last.req) /\ TitleFound(books, last.req)

\* the parameter reads as a number
Numeric(v) == Provided(v) /\ v # Str(<<>>) /\ ToNumber(v).k = "num"

\* the books whose rating_avg lies in [lo, hi], bounds included (in tenths)
RatedWithin(table, lo, hi) == {r \in table : lo <= r.rating_avg /\ r.rating_avg <= hi}

\* what C20 asks of a GET /book/ratings request with numeric min and max (tenths)
RatingsOutcome(lo, hi) ==
    IF lo < 0 \/ hi > 50
    THEN Answer(last.sent, 400, "Out of range") /\ last.queries = 0
    ELSE IF hi < lo
    THEN Answer(last.sent, 400, "Min greater than max") /\ last.queries = 0
    ELSE IF RatedWithin(last.before, lo, hi) # {}
    THEN last.sent = <<Entries(200, FormatAll(RatedWithin(last.before, lo, hi)))>>
    ELSE Status(404)

\* C20: GET /book/ratings answers 400 unless min and max are numbers; 400 "Out of
\* range" when min < 0 or max > 5, whatever their order; else 400 "Min greater
\* than max" when max < min; else 200 with exactly the books whose rating_avg
\* lies in [min, max], bounds included, or 404 when there is none.
C20_RatingsRange ==
    last.op = "getRatings" =>
        /\ books = last.before
        /\ IF Numeric(last.req.min) /\ Numeric(last.req.max)
           THEN RatingsOutcome(ToNumber(last.req.min).n, ToNumber(last.req.max).n)
           ELSE Status(400) /\ last.queries = 0

C20_Witness ==
    /\ last.op = "getRatings"
    /\ last.req.min = last.req.max
    /\ Status(200)
    /\ Cardinality(last.sent[1].entries) = 1
    /\ Cardinality(books) = 2

\* the isbn parameter is a nonnegative integer: digits and nothing else
NonNegInteger(v) ==
    v.k = "str" /\ v.s # <<>> /\ \A i \in 1..Len(v.s) : IsDigit(v.s[i])

InvalidIsbn == Response(400, "Invalid ISBN", "Invalid ISBN, use a nonnegative number.", {})

\* C21: DELETE /adminBook/isbn/:isbn answers 400 "Invalid ISBN" for every isbn
\* that is not a nonnegative integer (a numeric prefix followed by other
\* characters included) and changes nothing; for a nonnegative integer that no
\* book has it answers 404 and changes nothing; otherwise it answers 200 with
\* the one book of that isbn13, which is removed, every other row staying.
C21_DeleteIsbn ==
    last.op = "deleteIsbn"
    => IF ~NonNegInteger(last.req.isbn)
       THEN last.sent = <<InvalidIsbn>> /\ books = last.before
       ELSE IF WithIsbn(last.before, last.req.isbn.s) = {}
       THEN Status(404) /\ books = last.before
       ELSE /\ last.sent =
                <<Entries(200, FormatAll(WithIsbn(last.before, last.req.isbn.s)))>>
            /\ Cardinality(WithIsbn(last.before, last.req.isbn.s)) = 1
            /\ books = last.before \ WithIsbn(last.before, last.req.isbn.s)

\* the verdicts of the six guards on a body, in the order required fields, ISBN,
\* year, average, count, star buckets
GuardVerdicts(body) ==
    <<addBookRequired(body), isValidIsbn(body), isValidYear(body),
      isValidAvg(body), isValidCount(body), isValidStars(body)>>

\* the place of the first verdict that refuses, 0 when none does
FirstRefusal(verdicts) ==
    IF \A i \in 1..Len(verdicts) : verdicts[i].next THEN 0
    ELSE CHOOSE i \in 1..Len(verdicts) :
            /\ ~verdicts[i].next
            /\ \A j \in 1..(i - 1) : verdicts[j].next

\* what the last request got when guard k was the first to refuse it (k = 0:
\* none refused it)
AddBookOutcome(verdicts, k) ==
    IF k = 0
    THEN /\ last.chain.passed
         /\ last.chain.ran = Len(verdicts)
         /\ last.chain.sent = <<>>
         /\ last.queries = 1
    ELSE /\ last.sent = verdicts[k].sent
         /\ Status(400)
         /\ last.chain.ran = k
         /\ last.queries = 0
         /\ books = last.before

\* C22: addBook runs its guards in the order required fields, ISBN, year,
\* average, count, star buckets; the first guard that refuses the body writes
\* the 400 response, no later guard runs, the INSERT is issued only when every
\* guard passed, and the table is as it was after every 400 response.
C22_AddBookGuardOrder ==
    last.op = "addBook"
    => /\ AddBookOutcome(GuardVerdicts(last.req), FirstRefusal(GuardVerdicts(last.req)))
       /\ Status(400) => books = last.before

C22_Witness ==
    /\ last.op = "addBook"
    /\ ~isValidIsbn(last.req).next /\ ~isValidYear(last.req).next
    /\ addBookRequired(last.req).next
    /\ last.sent = isValidIsbn(last.req).sent
    /\ last.chain.ran = 2
    /\ last.queries = 0
    /\ books # {}

\* the fourteen data columns of a row, and those among them that hold text
DataColumns ==
    {"isbn13", "authors", "publication_year", "original_title", "title", "rating_avg",
     "rating_count", "rating_1_star", "rating_2_star", "rating_3_star", "rating_4_star",
     "rating_5_star", "image_url", "image_small_url"}
TextColumns == {"authors", "original_title", "title", "image_url", "image_small_url"}

\* two rows agree on the fourteen data columns
SameData(r1, r2) == \A c \in DataColumns : r1[c] = r2[c]

\* the row with another value in column c
Altered(r, c) ==
    [r EXCEPT ![c] = IF c \in TextColumns THEN Append(@, "!") ELSE @ + 1]

\* the DTO d holds the fourteen data columns of row r, each in its place
Nested(d, r) ==
    /\ DOMAIN d = {"isbn13", "authors", "publication", "original_title", "title",
                   "ratings", "icons"}
    /\ DOMAIN d.ratings = {"average", "count", "rating_1", "rating_2", "rating_3",
                           "rating_4", "rating_5"}
    /\ DOMAIN d.icons = {"large", "small"}
    /\ d.isbn13 = r.isbn13
    /\ d.authors = r.authors
    /\ d.publication = r.publication_year
    /\ d.original_title = r.original_title
    /\ d.title = r.title
    /\ d.ratings.average = r.rating_avg
    /\ d.ratings.count = r.rating_count
    /\ \A k \in 1..5 : d.ratings[<<"rating_1", "rating_2", "rating_3", "rating_4",
                                    "rating_5">>[k]] = Stars(r, k)
    /\ d.icons.large = r.image_url
    /\ d.icons.small = r.image_small_url

\* the rows the last request met: the table before its last statement and after
RowsMet == last.before \cup books

\* C23: format is a function of the fourteen data columns of a row: the DTO
\* does not depend on the id, holds publication_year as publication, the
\* rating columns under ratings and the two image columns under icons, and two
\* rows with equal DTOs agree on all fourteen columns; every DTO a response
\* carries is the format of a row of the table, and nothing else.
C23_FormatPure ==
    /\ \A r \in RowsMet :
        /\ Nested(format(r), r)
        /\ \A id \in 1..(MaxIds + 1) : format([r EXCEPT !.id = id]) = format(r)
        /\ \A c \in DataColumns : format(Altered(r, c)) # format(r)
    /\ \A r1, r2 \in RowsMet : format(r1) = format(r2) => SameData(r1, r2)
    /\ \A i \in 1..Len(last.sent) : last.sent[i].entries \subseteq FormatAll(RowsMet)

C23_Witness ==
    /\ last.op = "addBook"
    /\ Status(201)
    /\ Cardinality(books) = 2
    /\ \E r \in books :
        /\ last.sent[1].entries = {format(r)}
        /\ r.id = 3
        /\ r.image_small_url = <<"s">> /\ r.image_url = <<"l">>
        /\ r.rating_avg = 35 /\ r.rating_3_star = 1

\* the read routes of /book
ReadRoutes ==
    {"getAll", "getAuthor", "getTitle", "getYear", "getIsbn", "getSingleRating",
     "getRatings", "getAuthorTitle"}

\* C24: every 200 response of a read route of /book carries at least one entry:
\* whatever the table is (gaps in the ids included) and whatever is deleted
\* while the request is served, an empty result is answered with a 4xx status,
\* never with 200 and no entries.
C24_NoEmptyOk ==
    (last.op \in ReadRoutes /\ Status(200)) => last.sent[1].entries # {}

\* the rows GET /book/getAll selects for a table that stays as it is: what the
\* page query returns for the bounds decided from MAX(id); no row when the
\* request is refused
PageSelected(table, d) ==
    IF d.done THEN {} ELSE SelectPage(table, d.minIndex, d.maxIndex).rows
PageRows(table, pagenum, perpage) ==
    PageSelected(table, getAllRange(MaxId(table), pagenum * 10, perpage * 10))

\* the rows whose id is in [perpage * (pagenum - 1) + 1, min(perpage * pagenum, maxId)]
IdRange(table, pagenum, perpage) ==
    {r \in table : /\ r.id >= perpage * (pagenum - 1) + 1
                   /\ r.id <= perpage * pagenum
                   /\ r.id <= MaxId(table)}

\* the pages 1..ceil(maxId / perpage) of a table
PagesOf(table, perpage) == 1..CeilDiv(MaxId(table), perpage)

\* the pages of a table are accepted, are the id ranges, hold at most perpage
\* rows each, share no row and cover the table
Paged(table, perpage) ==
    /\ \A p \in PagesOf(table, perpage) :
        /\ ~getAllRange(MaxId(table), p * 10, perpage * 10).done
        /\ PageRows(table, p, perpage) = IdRange(table, p, perpage)
        /\ Cardinality(PageRows(table, p, perpage)) <= perpage
    /\ \A p, q \in PagesOf(table, perpage) :
        p # q => PageRows(table, p, perpage) \cap PageRows(table, q, perpage) = {}
    /\ UNION {PageRows(table, p, perpage) : p \in PagesOf(table, perpage)} = table

\* pagenum and perpage of the last request are integers, perpage at least 1
WholePages ==
    /\ ToNumber(last.req.pagenum).k = "num" /\ PageNum % 10 = 0
    /\ ToNumber(last.req.perpage).k = "num" /\ PerPage % 10 = 0 /\ PerPage >= 10

\* C25: for a table that stays as it is and an integer perpage >= 1, the pages
\* 1..ceil(maxId / perpage) are accepted by getAll, are pairwise disjoint and
\* cover the table, and page pagenum holds exactly the books whose id is in
\* [perpage * (pagenum - 1) + 1, min(perpage * pagenum, maxId)], at most
\* perpage of them; a 200 response carries exactly that page.
C25_PagesPartition ==
    /\ \A perpage \in 1..MaxPerPage : Paged(books, perpage)
    /\ (/\ last.op = "getAll" /\ Status(200)
        /\ WholePages
        /\ last.aux = MaxId(last.before))
       => /\ PageNum \div 10 \in PagesOf(last.before, PerPage \div 10)
          /\ last.sent[1].entries =
                FormatAll(IdRange(last.before, PageNum \div 10, PerPage \div 10))
          /\ Cardinality(last.sent[1].entries) <= PerPage \div 10

C25_Witness ==
    /\ last.op = "getAll" /\ Status(200)
    /\ PageNum = 20 /\ PerPage = 20
    /\ last.aux = 3 /\ MaxId(last.before) = 3
    /\ Cardinality(last.before) = 2
    /\ Cardinality(last.sent[1].entries) = 1
    /\ books = last.before

\* the data columns in which two rows differ
ChangedColumns(old, new) == {c \in DataColumns : old[c] # new[c]}

\* the column rating_<k>_star
StarColumn(k) ==
    <<"rating_1_star", "rating_2_star", "rating_3_star", "rating_4_star",
      "rating_5_star">>[k]

\* the columns a request targets: the star bucket of the rating and rating_count
\* for addRating, the column of every new_* field provided for changeValues
Targeted(op, body) ==
    IF op = "addRating"
    THEN {"rating_count"} \cup {StarColumn(k) : k \in {j \in 1..5 : RatingIs(body, j)}}
    ELSE {c \in {"title", "authors", "isbn13", "publication_year"} :
            \/ c = "title" /\ Provided(body.new_title)
            \/ c = "authors" /\ Provided(body.new_author)
            \/ c = "isbn13" /\ Provided(body.new_isbn)
            \/ c = "publication_year" /\ Provided(body.new_year)}

\* the rows the author and the title of a request select
Selection(op, table, body) ==
    IF op = "addRating" THEN PairRows(table, body) ELSE Named(table, body)

\* C26: addRating and changeValues change only rows that their author and
\* title select, and only the targeted columns: the star bucket of the rating
\* and rating_count for addRating, which changes them in every selected row,
\* and the columns of the provided new_* fields for changeValues; every row
\* that is not selected is after the request what it was before.
C26_OnlyTargeted ==
    last.op \in {"addRating", "changeValues"}
    => /\ {r.id : r \in books} = {r.id : r \in last.before}
       /\ \A old \in last.before : \A new \in books :
            new.id = old.id
            => /\ ChangedColumns(old, new) \subseteq Targeted(last.op, last.req)
               /\ old \notin Selection(last.op, last.before, last.req) => new = old
       /\ (last.op = "addRating" /\ Status(201))
          => \A old \in Selection(last.op, last.before, last.req) :
                \E new \in books :
                    /\ new.id = old.id
                    /\ ChangedColumns(old, new) = Targeted(last.op, last.req)
                    /\ Cardinality(Targeted(last.op, last.req)) = 2
                    /\ new.rating_count = old.rating_count + 1

C26_Witness ==
    /\ last.op = "addRating" /\ Status(201)
    /\ Cardinality(Selection(last.op, last.before, last.req)) = 2
    /\ \A r \in books : r.publication_year = 1999
    /\ \E r \in books : r.rating_3_star = 2 /\ r.rating_count = 2
    /\ \E r \in books : r.rating_3_star = 1 /\ r.rating_count = 1

\* rating_count - (rating_1_star + ... + rating_5_star)
Surplus(r) ==
    r.rating_count - (r.rating_1_star + r.rating_2_star + r.rating_3_star
                      + r.rating_4_star + r.rating_5_star)

\* row new is row old with one star bucket larger by 1 and the others as they were
OneBucketGrew(old, new) ==
    \E k \in 1..5 :
        \A j \in 1..5 : Stars(new, j) = Stars(old, j) + (IF j = k THEN 1 ELSE 0)

\* what a step does to the ratings of the books that stay in the table
SurplusKept ==
    \A old \in books : \A new \in books' :
        new.id = old.id
        => /\ Surplus(new) = Surplus(old)
           /\ new.rating_count # old.rating_count
                => new.rating_count = old.rating_count + 1 /\ OneBucketGrew(old, new)

\* C27: no step changes rating_count - (rating_1_star + ... + rating_5_star) of
\* a stored book: where addRating changes a row, rating_count and exactly one
\* star bucket grow by 1 together, also when several addRating requests for the
\* same book are served at the same time.
C27_SurplusPreserved == [][SurplusKept]_vars

\* one request has updated a book while another one for the same book, which
\* passed its checks before that update, waits for its own
C27_Witness ==
    /\ last.op = "addRating" /\ Status(201)
    /\ Len(inflight) = 1
    /\ inflight[1].op = "addRating" /\ inflight[1].pc = "update"
    /\ inflight[1].req.title = last.req.title /\ inflight[1].req.author = last.req.author
    /\ inflight[1].req.rating # last.req.rating
    /\ books # last.before
    /\ \A r \in books : Surplus(r) = 0

\* the decimal digits of a nonnegative integer, as JSON and a URL carry it
RECURSIVE Decimal(_)
Decimal(n) ==
    IF n < 10 THEN <<Digits[n + 1]>>
    ELSE Decimal(n \div 10) \o <<Digits[(n % 10) + 1]>>

\* the stored books whose isbn13, as a 201 DTO returned it, is the isbn asked for
AskedFor(table, isbn) == {r \in table : Str(Decimal(r.isbn13)) = isbn}

\* C28: a book that addBook accepted with 201, and that was neither deleted nor
\* given another isbn since, is retrieved by GET /book/isbn with the isbn13 of
\* its 201 DTO: the answer is 200 and contains the book; addBook accepts no
\* isbn13 that GET /book/isbn refuses as malformed.
C28_AcceptedIsRetrievable ==
    (last.op = "getIsbn" /\ AskedFor(last.before, last.req.isbn) # {})
    => /\ Status(200)
       /\ FormatAll(AskedFor(last.before, last.req.isbn)) \subseteq last.sent[1].entries

====
